---- MODULE Spec2Model ----
(***************************************************************************)
(* rust-VM: the parser (Program::parse), the two-pass assembler            *)
(* (Assembler::assemble and the functions it calls) and the virtual        *)
(* machine (VM::run, VM::run_once, VM::execute_instruction), as state      *)
(* machines.                                                               *)
(*                                                                         *)
(* Option<T> is a sequence of length 0 (None) or 1 (Some(x)).  A byte      *)
(* vector is a sequence over 0..255.  A string is its sequence of bytes.   *)
(***************************************************************************)
EXTENDS Integers, Sequences, FiniteSets, TLC

VARIABLES
    program,         \* Program::parse(data).instructions, the input of assemble()
    pc,              \* position in assemble(): idle, first_pass, second_pass, done, panic
    idx,             \* index of the instruction the running pass is at (1-based)
    offset,          \* first_pass's local `offset`
    data_section,    \* Assembler.data_section
    code_section,    \* Assembler.code_section
    symbols,         \* Assembler.symbols: label name -> Symbol.offset
    current_section, \* Assembler.current_section: Option<AssemblerSection>
    next_alignment,  \* Assembler.next_alignment: Option<usize>
    result,          \* what assemble() returned
    layout,          \* history: per instruction, what pass 1 did with it
    emitted,         \* history: per instruction, what pass 2 appended for it
    source,          \* the text `data` given to assemble(), as its sequence of tokens
    at_entry,        \* history: the Assembler's fields when assemble() was entered
    previous,        \* history: source, program and result of the calls that returned
    registers,       \* VM.registers: [i32; 32]
    vm_pc,           \* VM.pc
    vm_program,      \* VM.program: the image the VM runs and writes to
    code_section_start, \* VM.code_section_start
    remainder,       \* VM.remainder
    equality_flag,   \* VM.equality_flag
    vm_mode,         \* where the VM is: idle, running (inside run()'s loop), panic
    steps,           \* number of run() / run_once() calls and loop iterations so far
    executed         \* history: what each execute_instruction of the VM did

\* the assembler, its caller's history, the virtual machine
asm_vars == <<program, pc, idx, offset, data_section, code_section, symbols,
              current_section, next_alignment, result, layout, emitted>>
call_vars == <<source, at_entry, previous>>
vm_vars == <<registers, vm_pc, vm_program, code_section_start, remainder,
             equality_flag, vm_mode, steps, executed>>

vars == <<asm_vars, call_vars, vm_vars>>

-----------------------------------------------------------------------------
(* Program constants and the Opcode values used by the programs below.     *)

PIE_HEADER_LENGTH == 64
PIE_HEADER_PREFIX == <<69, 80, 73, 69>>

HLT == 0
LDBI == 4
LDBD == 5
LDBR == 6
LDHI == 8
LDHD == 9
LDHR == 10
LDWD == 13
LDWR == 14
STRBI == 16
STRBR == 18
STRHI == 20
STRHR == 22
STRWI == 24
STRWR == 26
MOV == 30
ADDI == 64
ADDR == 66
SUBI == 68
SUBR == 70
MULI == 72
MULR == 74
DIVI == 76
DIVR == 78
EQI == 128
EQR == 130
NEQI == 132
NEQR == 134
GTI == 136
GTR == 138
GTEI == 140
GTER == 142
LTI == 144
LTR == 146
LTEI == 148
LTER == 150
JMPI == 160
JMPD == 161
JMPR == 162
JMPEI == 164
JMPED == 165
JMPER == 166
JMPNEI == 168
JMPNED == 169
JMPNER == 170
IGL == 255

\* the two print-string opcodes of vm.rs: their enum values are in the shared
\* opcode table, which the sources at hand do not include; they are taken
\* here as the next group of the table (D form + 1, R form + 2)
PRTSD == 193
PRTSR == 194

\* the values Opcode::from_u8 knows
Opcodes ==
    {HLT, LDBI, LDBD, LDBR, LDHI, LDHD, LDHR, LDWD, LDWR,
     STRBI, STRBR, STRHI, STRHR, STRWI, STRWR, MOV,
     ADDI, ADDR, SUBI, SUBR, MULI, MULR, DIVI, DIVR,
     EQI, EQR, NEQI, NEQR, GTI, GTR, GTEI, GTER, LTI, LTR, LTEI, LTER,
     JMPI, JMPD, JMPR, JMPEI, JMPED, JMPER, JMPNEI, JMPNED, JMPNER,
     PRTSD, PRTSR, IGL}

-----------------------------------------------------------------------------
(* Option<T>                                                               *)

None == <<>>
Some(x) == <<x>>
unwrap_or(o, default) == IF o = None THEN default ELSE o[1]

-----------------------------------------------------------------------------
(* parser::operand::Operand and parser::instruction::AssemblerInstruction  *)

Register(reg) == [tag |-> "Register", num |-> reg, name |-> "", bytes |-> <<>>]
Value(value) == [tag |-> "Value", num |-> value, name |-> "", bytes |-> <<>>]
Label(label) == [tag |-> "Label", num |-> 0, name |-> label, bytes |-> <<>>]
String(string) == [tag |-> "String", num |-> 0, name |-> "", bytes |-> string]

new_opcode(label, opcode, operands) ==
    [kind |-> "Opcode", label |-> label, opcode |-> opcode,
     directive |-> "", operands |-> operands]

new_directive(label, directive, operands) ==
    [kind |-> "Directive", label |-> label, opcode |-> 0,
     directive |-> directive, operands |-> operands]

-----------------------------------------------------------------------------
(* Integer conversions.  TLA+'s % is the mathematical modulus and \div is  *)
(* the floor division, so these give the two's-complement truncations.     *)

AsU8(value) == value % 256
AsU16(value) == value % 65536
U16ToBeBytes(x) == <<x \div 256, x % 256>>
\* to_le_bytes() in place of to_be_bytes()
I32AsU32ToLeBytes(value) ==
    <<value % 256, (value \div 256) % 256,
      (value \div 65536) % 256, (value \div 16777216) % 256>>
\* (value as u32).to_be_bytes() of an i32 value
I32AsU32ToBeBytes(value) ==
    <<(value \div 16777216) % 256, (value \div 65536) % 256,
      (value \div 256) % 256, value % 256>>
\* (n as u32).to_be_bytes() of a length
U32ToBeBytes(n) ==
    <<(n \div 16777216) % 256, (n \div 65536) % 256, (n \div 256) % 256, n % 256>>

Zeros(n) == [i \in 1..n |-> 0]
\* `if bytes.len() < n { bytes.resize(n, 0) }`
resize(bytes, n) == IF Len(bytes) < n THEN bytes \o Zeros(n - Len(bytes)) ELSE bytes

RECURSIVE Flatten(_)
Flatten(seqs) == IF seqs = <<>> THEN <<>> ELSE Head(seqs) \o Flatten(Tail(seqs))

-----------------------------------------------------------------------------
(* The parser.  A text is the sequence of its tokens; white space may      *)
(* stand between any two tokens except before a comma, which is written    *)
(* right after its operand.  A nom parser is an operator from an input to  *)
(* None (Err) or Some([rest, out]).                                        *)

Token(class, num, name, bytes) == [t |-> class, num |-> num, name |-> name, bytes |-> bytes]

LabelDeclarationToken(name) == Token("label_declaration", 0, name, <<>>)  \* name:
AlphaToken(name) == Token("alpha", 0, name, <<>>)                         \* hlt
DirectiveToken(name) == Token("directive", 0, name, <<>>)                 \* .name
RegisterToken(number) == Token("register", number, "", <<>>)              \* $number
NumberToken(number) == Token("number", number, "", <<>>)                  \* number
LabelUsageToken(name) == Token("label_usage", 0, name, <<>>)              \* @name
StringToken(string) == Token("string", 0, "", string)                     \* 'string'
CommaToken == Token("comma", 0, "", <<>>)                                 \* ,
CommentToken == Token("comment", 0, "", <<>>)                             \* ; text, to the end of the line
OtherToken == Token("other", 0, "", <<>>)                                 \* ? (no parser takes it)

Parsed(rest, out) == Some([rest |-> rest, out |-> out])

first_token_is(input, class) == input # <<>> /\ input[1].t = class

\* Opcode::from(&str)
Opcode_from(value) ==
    CASE value = "hlt" -> HLT
      [] value = "ldbi" -> LDBI
      [] value = "ldhi" -> LDHI
      [] value = "jmpi" -> JMPI
      [] OTHER -> IGL

\* Directive::from(&str)
Directive_from(value) ==
    CASE value = "ascii" -> "Ascii"
      [] value = "asciiz" -> "Asciiz"
      [] value = "code" -> "Code"
      [] value = "data" -> "Data"
      [] value = "byte" -> "Byte"
      [] value = "half" -> "Half"
      [] value = "word" -> "Word"
      [] value = "space" -> "Space"
      [] value = "align" -> "Align"
      [] OTHER -> "Unknown"

parse_label_declaration(input) ==
    IF first_token_is(input, "label_declaration")
    THEN Parsed(Tail(input), input[1].name) ELSE None

parse_opcode(input) ==
    IF first_token_is(input, "alpha")
    THEN Parsed(Tail(input), Opcode_from(input[1].name)) ELSE None

parse_directive(input) ==
    IF first_token_is(input, "directive")
    THEN Parsed(Tail(input), Directive_from(input[1].name)) ELSE None

\* parse_register: `number as u8`
parse_register(input) ==
    IF first_token_is(input, "register")
    THEN Parsed(Tail(input), AsU8(input[1].num)) ELSE None

parse_number(input) ==
    IF first_token_is(input, "number")
    THEN Parsed(Tail(input), input[1].num) ELSE None

parse_label_usage(input) ==
    IF first_token_is(input, "label_usage")
    THEN Parsed(Tail(input), input[1].name) ELSE None

parse_string(input) ==
    IF first_token_is(input, "string")
    THEN Parsed(Tail(input), input[1].bytes) ELSE None

\* parse_operand: alt((register, number, label usage, string))
parse_operand(input) ==
    CASE parse_register(input) # None ->
            Parsed(parse_register(input)[1].rest, Register(parse_register(input)[1].out))
      [] parse_number(input) # None ->
            Parsed(parse_number(input)[1].rest, Value(parse_number(input)[1].out))
      [] parse_label_usage(input) # None ->
            Parsed(parse_label_usage(input)[1].rest, Label(parse_label_usage(input)[1].out))
      [] parse_string(input) # None ->
            Parsed(parse_string(input)[1].rest, String(parse_string(input)[1].out))
      [] OTHER -> None

\* opt(char(','))
opt_comma(input) == IF first_token_is(input, "comma") THEN Tail(input) ELSE input

\* many_m_n(0, 3, ...) in place of many0(...)
RECURSIVE operands_at_most(_, _)
operands_at_most(input, n) ==
    IF n = 0 \/ parse_operand(input) = None
    THEN [rest |-> input, out |-> <<>>]
    ELSE LET more == operands_at_most(opt_comma(parse_operand(input)[1].rest), n - 1)
         IN  [rest |-> more.rest, out |-> <<parse_operand(input)[1].out>> \o more.out]
parse_three_operands(input) == operands_at_most(input, 3)

\* many0(delimited(multispace0, parse_operand, opt(char(','))))
RECURSIVE parse_operands(_)
parse_operands(input) ==
    IF parse_operand(input) = None
    THEN [rest |-> input, out |-> <<>>]
    ELSE LET more == parse_operands(opt_comma(parse_operand(input)[1].rest))
         IN  [rest |-> more.rest, out |-> <<parse_operand(input)[1].out>> \o more.out]

\* opt(parse_label_declaration)
opt_label_declaration(input) ==
    IF parse_label_declaration(input) = None
    THEN [rest |-> input, out |-> None]
    ELSE [rest |-> parse_label_declaration(input)[1].rest,
          out |-> Some(parse_label_declaration(input)[1].out)]

parse_opcode_instruction(input) ==
    LET label == opt_label_declaration(input)
        opcode == parse_opcode(label.rest)
    IN  IF opcode = None THEN None
        ELSE Parsed(parse_operands(opcode[1].rest).rest,
                    new_opcode(label.out, opcode[1].out, parse_operands(opcode[1].rest).out))

parse_directive_instruction(input) ==
    LET label == opt_label_declaration(input)
        directive == parse_directive(label.rest)
    IN  IF directive = None THEN None
        ELSE Parsed(parse_operands(directive[1].rest).rest,
                    new_directive(label.out, directive[1].out,
                                  parse_operands(directive[1].rest).out))

\* parse_instruction: alt((opcode instruction, directive instruction))
parse_instruction(input) ==
    IF parse_opcode_instruction(input) # None
    THEN parse_opcode_instruction(input)
    ELSE parse_directive_instruction(input)

\* many0(delimited(multispace0, parse_instruction, multispace0)): it stops at
\* the first input parse_instruction fails on and returns what it has
RECURSIVE parse_instructions(_)
parse_instructions(input) ==
    IF parse_instruction(input) = None
    THEN [rest |-> input, out |-> <<>>]
    ELSE LET more == parse_instructions(parse_instruction(input)[1].rest)
         IN  [rest |-> more.rest, out |-> <<parse_instruction(input)[1].out>> \o more.out]

\* Program::parse: `many0(...)(text).ok()?`, the rest of the input is dropped
Program_parse(text) == Some(parse_instructions(text).out)

-----------------------------------------------------------------------------
(* DirectiveInstruction::size, aligned_bytes, align                        *)

\* the operands that are Operand::Value, in order
ValueOperands(operands) == SelectSeq(operands, LAMBDA operand : operand.tag = "Value")

\* align that rounds down
align_down(value, alignment) == (value \div alignment) * alignment
\* align that forgets to divide and multiply
align_unrounded(value, alignment) == value + alignment - 1

align(value, alignment) == ((value + alignment - 1) \div alignment) * alignment

first_is(operands, tag) == operands # <<>> /\ operands[1].tag = tag

\* whether size() reaches align(): a zero alignment then divides by zero
CallsAlign(directive) ==
    CASE directive.directive \in {"Ascii", "Asciiz"} -> first_is(directive.operands, "String")
      [] directive.directive \in {"Byte", "Half", "Word"} -> TRUE
      [] OTHER -> FALSE

SizePanics(directive, alignment) ==
    CallsAlign(directive) /\ unwrap_or(alignment, 4) = 0

size(directive, alignment) ==
    LET a == unwrap_or(alignment, 4)
        operands == directive.operands
    IN  CASE directive.directive = "Align" -> 0
          [] directive.directive = "Ascii" ->
                IF first_is(operands, "String") THEN align(Len(operands[1].bytes), a) ELSE 0
          [] directive.directive = "Asciiz" ->
                IF first_is(operands, "String") THEN align(Len(operands[1].bytes) + 1, a) ELSE 0
          [] directive.directive = "Byte" -> align(Len(ValueOperands(operands)), a)
          [] directive.directive = "Half" -> align(Len(ValueOperands(operands)) * 2, a)
          [] directive.directive = "Word" -> align(Len(ValueOperands(operands)) * 4, a)
          [] directive.directive = "Space" ->
                IF first_is(operands, "Value") THEN operands[1].num ELSE 0
          [] OTHER -> 0

\* the bytes of a directive before padding
payload(directive) ==
    LET operands == directive.operands
        values == ValueOperands(operands)
    IN  CASE directive.directive = "Ascii" ->
                IF first_is(operands, "String") THEN operands[1].bytes ELSE <<>>
          [] directive.directive = "Asciiz" ->
                IF first_is(operands, "String") THEN Append(operands[1].bytes, 0) ELSE <<>>
          [] directive.directive = "Byte" ->
                [i \in 1..Len(values) |-> AsU8(values[i].num)]
          [] directive.directive = "Half" ->
                Flatten([i \in 1..Len(values) |-> U16ToBeBytes(AsU16(values[i].num))])
          [] directive.directive = "Word" ->
                Flatten([i \in 1..Len(values) |-> I32AsU32ToBeBytes(values[i].num)])
          [] OTHER -> <<>>

\* aligned_bytes without the padding
unpadded_bytes(directive, alignment) == payload(directive)

aligned_bytes(directive, alignment) ==
    resize(payload(directive), size(directive, alignment))

-----------------------------------------------------------------------------
(* AssemblerSection::from and SymbolTable                                  *)

AssemblerSection_from(directive) ==
    CASE directive = "Data" -> "Data"
      [] directive = "Code" -> "Code"
      [] OTHER -> "Unknown"

SizedDirectives == {"Ascii", "Asciiz", "Byte", "Half", "Word", "Space"}

\* SymbolTable::add_symbol: the table after HashMap::insert, and the bool returned
add_symbol_table(table, name, symbol_offset) ==
    [n \in DOMAIN table \cup {name} |-> IF n = name THEN symbol_offset ELSE table[n]]
\* add_symbol that reports every name as new
add_symbol_always_new(table, name) == TRUE
add_symbol(table, name) == name \notin DOMAIN table

\* a lookup that finds no symbol
get_symbol_missing(table, name) == None

\* SymbolTable::get_symbol
get_symbol(table, name) == IF name \in DOMAIN table THEN Some(table[name]) ELSE None

EmptyTable == [n \in {} |-> 0]

-----------------------------------------------------------------------------
(* Results of assemble()                                                   *)

NoResult == [tag |-> "None", image |-> <<>>, error |-> ""]
Ok(image) == [tag |-> "Ok", image |-> image, error |-> ""]
Err(error) == [tag |-> "Err", image |-> <<>>, error |-> error]

\* `return Err(error)` out of assemble(), at instruction idx
Return(error) ==
    /\ pc' = "done"
    /\ result' = Err(error)
    /\ UNCHANGED idx

\* a Rust panic unwinds out of assemble(): nothing is returned
Panic ==
    /\ pc' = "panic"
    /\ UNCHANGED <<result, idx>>

\* history records
Laid(before, sz, a) == [offset |-> before, size |-> sz, alignment |-> a]
Emit(section, start, bytes, a) ==
    [section |-> section, start |-> start, bytes |-> bytes, alignment |-> a]

-----------------------------------------------------------------------------
(* Assembler::assemble: the call, and pass 1                               *)

\* `value as usize` / `size as u32`; the programs below keep these values >= 0
AsUsize(value) == value

\* the fields of the Assembler
Fields ==
    [data_section |-> data_section, code_section |-> code_section,
     symbols |-> symbols, current_section |-> current_section,
     next_alignment |-> next_alignment]

\* assemble() is entered; Program::parse(data) gave `program`
Assemble ==
    /\ pc = "idle"
    /\ pc' = "first_pass"
    /\ idx' = 1
    /\ offset' = 0
    /\ layout' = <<>>
    /\ emitted' = <<>>
    /\ at_entry' = Fields
    /\ UNCHANGED <<program, data_section, code_section, symbols,
                   current_section, next_alignment, result>>
    /\ UNCHANGED <<source, previous, vm_vars>>

\* assemble(data) is entered with the text `source`: lines 35-37 parse it
AssembleSource ==
    /\ pc = "idle"
    /\ at_entry' = Fields
    /\ IF Program_parse(source) = None
       THEN /\ Return("ParseError")
            /\ UNCHANGED <<program, offset, layout, emitted>>
       ELSE /\ program' = Program_parse(source)[1]
            /\ pc' = "first_pass"
            /\ idx' = 1
            /\ offset' = 0
            /\ layout' = <<>>
            /\ emitted' = <<>>
            /\ UNCHANGED result
    /\ UNCHANGED <<data_section, code_section, symbols, current_section, next_alignment>>
    /\ UNCHANGED <<source, previous, vm_vars>>

\* what the caller keeps of a call that returned
Returned ==
    [source |-> source, program |-> program, result |-> result, fields |-> Fields]

\* the text without its comments
StripComments(text) == SelectSeq(text, LAMBDA token : token.t # "comment")

\* `Assembler::default().assemble(&data)` once more, as the cli does for each
\* file, on the text of the call before without its comments
AssembleWithoutComments ==
    /\ pc = "done"
    /\ previous = <<>>
    /\ StripComments(source) # source
    /\ previous' = Append(previous, Returned)
    /\ source' = StripComments(source)
    /\ data_section' = <<>>
    /\ code_section' = <<>>
    /\ symbols' = EmptyTable
    /\ current_section' = None
    /\ next_alignment' = None
    /\ at_entry' = [data_section |-> <<>>, code_section |-> <<>>, symbols |-> EmptyTable,
                    current_section |-> None, next_alignment |-> None]
    /\ program' = Program_parse(StripComments(source))[1]
    /\ pc' = "first_pass"
    /\ idx' = 1
    /\ offset' = 0
    /\ layout' = <<>>
    /\ emitted' = <<>>
    /\ result' = NoResult
    /\ UNCHANGED vm_vars

\* bound: calls of assemble() on one Assembler
MaxCalls == 2

\* a program that assembles on a new Assembler: .code / hlt
ValidProgram == <<new_directive(None, "Code", <<>>), new_opcode(None, HLT, <<>>)>>

\* assemble() is called again on the same Assembler (`&mut self`), with the
\* text of the call before or with a valid program
AssembleAgain ==
    /\ pc = "done"
    /\ Len(previous) < MaxCalls - 1
    /\ \E p \in {program, ValidProgram} : program' = p
    /\ previous' = Append(previous, Returned)
    /\ at_entry' = Fields
    /\ pc' = "first_pass"
    /\ idx' = 1
    /\ offset' = 0
    /\ layout' = <<>>
    /\ emitted' = <<>>
    /\ result' = NoResult
    /\ UNCHANGED <<source, data_section, code_section, symbols, current_section,
                   next_alignment>>
    /\ UNCHANGED vm_vars

\* first_pass, the two AssemblerInstruction::Opcode arms
FirstPassOpcode ==
    /\ pc = "first_pass"
    /\ idx <= Len(program)
    /\ program[idx].kind = "Opcode"
    /\ LET label == program[idx].label
       IN  IF label = None
           THEN /\ offset' = offset + 4
                /\ idx' = idx + 1
                /\ layout' = Append(layout, Laid(offset, 4, 0))
                /\ UNCHANGED <<pc, result, symbols>>
           ELSE IF current_section = None
           THEN /\ Return("NoSegmentDeclarationFound")
                /\ UNCHANGED <<offset, layout, symbols>>
           ELSE IF ~add_symbol(symbols, label[1])
           THEN /\ symbols' = add_symbol_table(symbols, label[1], offset)
                /\ Return("SymbolAlreadyDeclared")
                /\ UNCHANGED <<offset, layout>>
           ELSE /\ symbols' = add_symbol_table(symbols, label[1], offset)
                /\ offset' = offset + 4
                /\ idx' = idx + 1
                /\ layout' = Append(layout, Laid(offset, 4, 0))
                /\ UNCHANGED <<pc, result>>
    /\ UNCHANGED <<program, data_section, code_section, current_section,
                   next_alignment, emitted>>
    /\ UNCHANGED <<call_vars, vm_vars>>

\* handle_directive_first_pass: the next_alignment an `.align` leaves
align_directive(directive, alignment) ==
    IF directive.directive = "Align" /\ first_is(directive.operands, "Value")
    THEN Some(AsUsize(directive.operands[1].num))
    ELSE alignment

\* whether the directive installs its label (first pass, lines 116-131)
DeclaresLabel(directive) ==
    directive.directive \in SizedDirectives /\ directive.label # None

\* first_pass, the AssemblerInstruction::Directive arm: handle_directive_first_pass
FirstPassDirective ==
    /\ pc = "first_pass"
    /\ idx <= Len(program)
    /\ program[idx].kind = "Directive"
    /\ LET directive == program[idx]
           label == directive.label
       IN  IF directive.operands = <<>>
           THEN /\ current_section' = Some(AssemblerSection_from(directive.directive))
                /\ idx' = idx + 1
                /\ layout' = Append(layout, Laid(offset, 0, 0))
                /\ UNCHANGED <<pc, result, offset, symbols, next_alignment>>
           ELSE IF current_section = None
           THEN /\ Return("NoSegmentDeclarationFound")
                /\ UNCHANGED <<offset, layout, symbols, current_section, next_alignment>>
           ELSE IF DeclaresLabel(directive) /\ ~add_symbol(symbols, label[1])
           THEN /\ symbols' = add_symbol_table(symbols, label[1], offset)
                /\ Return("SymbolAlreadyDeclared")
                /\ UNCHANGED <<offset, layout, current_section, next_alignment>>
           ELSE /\ symbols' = IF DeclaresLabel(directive)
                              THEN add_symbol_table(symbols, label[1], offset)
                              ELSE symbols
                /\ UNCHANGED current_section
                /\ IF directive.directive = "Align"
                   THEN /\ next_alignment' = align_directive(directive, next_alignment)
                        /\ idx' = idx + 1
                        /\ layout' = Append(layout, Laid(offset, 0, 0))
                        /\ UNCHANGED <<pc, result, offset>>
                   ELSE /\ next_alignment' = None
                        /\ IF SizePanics(directive, next_alignment)
                           THEN /\ Panic
                                /\ UNCHANGED <<offset, layout>>
                           ELSE /\ offset' = offset + size(directive, next_alignment)
                                /\ idx' = idx + 1
                                /\ layout' = Append(layout,
                                       Laid(offset, size(directive, next_alignment),
                                            unwrap_or(next_alignment, 4)))
                                /\ UNCHANGED <<pc, result>>
    /\ UNCHANGED <<program, data_section, code_section, emitted>>
    /\ UNCHANGED <<call_vars, vm_vars>>

\* first_pass returned Ok(()): second_pass starts
FirstPassDone ==
    /\ pc = "first_pass"
    /\ idx > Len(program)
    /\ pc' = "second_pass"
    /\ idx' = 1
    /\ UNCHANGED <<program, offset, data_section, code_section, symbols,
                   current_section, next_alignment, result, layout, emitted>>
    /\ UNCHANGED <<call_vars, vm_vars>>

-----------------------------------------------------------------------------
(* Pass 2                                                                  *)

\* the stored offset of a label written as it is
label_offset_stored(stored) == AsU16(stored)

\* second_pass, lines 161-163: `symbol.offset as u16 + PIE_HEADER_LENGTH as u16`
label_offset(stored) == (AsU16(stored) + PIE_HEADER_LENGTH) % 65536

\* operand_bytes that writes 0 for a label it does not find and skips a string
operand_bytes_lenient(operand, table) ==
    CASE operand.tag = "Register" -> Some(<<operand.num>>)
      [] operand.tag = "Value" -> Some(U16ToBeBytes(AsU16(operand.num)))
      [] operand.tag = "Label" -> Some(U16ToBeBytes(AsU16(unwrap_or(get_symbol(table, operand.name), 0))))
      [] OTHER -> Some(<<>>)

\* second_pass, lines 156-170: the bytes of one operand, None for an Err
operand_bytes(operand, table) ==
    CASE operand.tag = "Register" -> Some(<<operand.num>>)
      [] operand.tag = "Value" -> Some(U16ToBeBytes(AsU16(operand.num)))
      [] operand.tag = "Label" ->
            IF get_symbol(table, operand.name) = None
            THEN None
            ELSE Some(U16ToBeBytes(label_offset(get_symbol(table, operand.name)[1])))
      [] OTHER -> None

\* `opcode.operands.iter().take(3)`
take(operands, n) == SubSeq(operands, 1, IF Len(operands) < n THEN Len(operands) ELSE n)

\* second_pass, lines 150-176: the buffer of one opcode instruction, None for an Err
opcode_bytes(opcode, table) ==
    LET operands == take(opcode.operands, 3)
        encoded == [i \in 1..Len(operands) |-> operand_bytes(operands[i], table)]
    IN  IF \E i \in 1..Len(operands) : encoded[i] = None
        THEN None
        ELSE Some(resize(<<opcode.opcode>>
                         \o Flatten([i \in 1..Len(operands) |-> encoded[i][1]]), 4))

\* second_pass, the AssemblerInstruction::Opcode arm
SecondPassOpcode ==
    /\ pc = "second_pass"
    /\ idx <= Len(program)
    /\ program[idx].kind = "Opcode"
    /\ LET buf == opcode_bytes(program[idx], symbols)
       IN  IF buf = None
           THEN /\ Return("IncorrectOperand")
                /\ UNCHANGED <<code_section, emitted>>
           ELSE /\ code_section' = code_section \o buf[1]
                /\ emitted' = Append(emitted, Emit("code", Len(code_section), buf[1], 0))
                /\ idx' = idx + 1
                /\ UNCHANGED <<pc, result>>
    /\ UNCHANGED <<program, offset, data_section, symbols, current_section,
                   next_alignment, layout>>
    /\ UNCHANGED <<call_vars, vm_vars>>

\* handle_directive_second_pass, lines 214-222: the buffer the bytes go to
section_buffer(section) ==
    CASE section = Some("Data") -> "data"
      [] section = Some("Code") -> "data"
      [] OTHER -> "none"

\* second_pass, the AssemblerInstruction::Directive arm: handle_directive_second_pass
SecondPassDirective ==
    /\ pc = "second_pass"
    /\ idx <= Len(program)
    /\ program[idx].kind = "Directive"
    /\ LET directive == program[idx]
       IN  IF directive.operands = <<>>
           THEN /\ current_section' = Some(AssemblerSection_from(directive.directive))
                /\ idx' = idx + 1
                /\ emitted' = Append(emitted, Emit("none", 0, <<>>, 0))
                /\ UNCHANGED <<pc, result, data_section, code_section, next_alignment>>
           ELSE IF directive.directive = "Align"
           THEN /\ next_alignment' = align_directive(directive, next_alignment)
                /\ idx' = idx + 1
                /\ emitted' = Append(emitted, Emit("none", 0, <<>>, 0))
                /\ UNCHANGED <<pc, result, data_section, code_section, current_section>>
           ELSE IF directive.directive \in SizedDirectives
           THEN /\ next_alignment' = None
                /\ UNCHANGED current_section
                /\ IF SizePanics(directive, next_alignment)
                   THEN /\ Panic
                        /\ UNCHANGED <<data_section, code_section, emitted>>
                   ELSE LET bytes == aligned_bytes(directive, next_alignment)
                            buffer == section_buffer(current_section)
                        IN  IF buffer = "none"
                            THEN /\ Return("NoSegmentDeclarationFound")
                                 /\ UNCHANGED <<data_section, code_section, emitted>>
                            ELSE /\ data_section' =
                                        IF buffer = "data" THEN data_section \o bytes
                                                           ELSE data_section
                                 /\ code_section' =
                                        IF buffer = "code" THEN code_section \o bytes
                                                           ELSE code_section
                                 /\ emitted' = Append(emitted,
                                        Emit(buffer,
                                             IF buffer = "data" THEN Len(data_section)
                                                                ELSE Len(code_section),
                                             bytes, unwrap_or(next_alignment, 4)))
                                 /\ idx' = idx + 1
                                 /\ UNCHANGED <<pc, result>>
           ELSE /\ idx' = idx + 1
                /\ emitted' = Append(emitted, Emit("none", 0, <<>>, 0))
                /\ UNCHANGED <<pc, result, data_section, code_section,
                               current_section, next_alignment>>
    /\ UNCHANGED <<program, offset, symbols, layout>>
    /\ UNCHANGED <<call_vars, vm_vars>>

\* create_header with the code offset written as the header length alone
create_header_code_at_64(data, code) ==
    resize(PIE_HEADER_PREFIX \o <<0, 0, 0, 0>>
             \o U32ToBeBytes(64) \o U32ToBeBytes(Len(data))
             \o U32ToBeBytes(64) \o U32ToBeBytes(Len(code)),
           PIE_HEADER_LENGTH)

\* Assembler::create_header
create_header(data, code) ==
    resize(PIE_HEADER_PREFIX \o <<0, 0, 0, 0>>
             \o U32ToBeBytes(64) \o U32ToBeBytes(Len(data))
             \o U32ToBeBytes(64 + Len(data)) \o U32ToBeBytes(Len(code)),
           PIE_HEADER_LENGTH)

\* SecondPassDone that clears the symbol table when the image is built
SecondPassDone_clearing_symbols ==
    /\ pc = "second_pass"
    /\ idx > Len(program)
    /\ result' = Ok(create_header(data_section, code_section)
                      \o data_section \o code_section)
    /\ pc' = "done"
    /\ symbols' = EmptyTable
    /\ UNCHANGED <<program, idx, offset, data_section, code_section,
                   current_section, next_alignment, layout, emitted>>
    /\ UNCHANGED <<call_vars, vm_vars>>

\* assemble(), lines 42-46: second_pass returned Ok(()), the image is built and returned
SecondPassDone ==
    /\ pc = "second_pass"
    /\ idx > Len(program)
    /\ result' = Ok(create_header(data_section, code_section)
                      \o data_section \o code_section)
    /\ pc' = "done"
    /\ UNCHANGED <<program, idx, offset, data_section, code_section, symbols,
                   current_section, next_alignment, layout, emitted>>
    /\ UNCHANGED <<call_vars, vm_vars>>

-----------------------------------------------------------------------------
(* The virtual machine: Instruction::from and its readers                  *)

MaxI32 == 2147483647
MinI32 == -2147483647 - 1

\* big-endian decoding
BE16(b) == b[1] * 256 + b[2]
\* u32::from_be_bytes(b) as usize; 2^31 and above, beyond every image, is kept as 2^31 - 1
U32FromBeBytes(b) ==
    IF b[1] >= 128 THEN MaxI32 ELSE ((b[1] * 256 + b[2]) * 256 + b[3]) * 256 + b[4]
\* i32::from_be_bytes(b)
I32FromBeBytes(b) ==
    (IF b[1] >= 128 THEN b[1] - 256 ELSE b[1]) * 16777216 + b[2] * 65536 + b[3] * 256 + b[4]
\* i16::from_be_bytes(b) as i32
I16FromBeBytes(b) == (IF b[1] >= 128 THEN b[1] - 256 ELSE b[1]) * 256 + b[2]
\* `x as usize` of an i32: a negative x is beyond every image and is kept as 2^31 - 1
I32AsUsize(x) == IF x < 0 THEN MaxI32 ELSE x

\* a decoder that refuses a byte that is no opcode
Instruction_from_checked(slice) ==
    IF Len(slice) < 4 \/ slice[1] \notin Opcodes THEN None
    ELSE Some([opcode |-> slice[1], buffer |-> Tail(slice)])

\* Instruction::from(slice): None if the slice has fewer than 4 bytes
Instruction_from(slice) ==
    IF Len(slice) < 4 THEN None
    ELSE Some([opcode |-> IF slice[1] \in Opcodes THEN slice[1] ELSE IGL,
               buffer |-> Tail(slice)])

\* the VM as a value, and what an execute_instruction makes of it:
\* `continue` is the bool it returns, `panic` an unwinding out of it
VMValue ==
    [registers |-> registers, pc |-> vm_pc, program |-> vm_program,
     remainder |-> remainder, equality_flag |-> equality_flag]
Continue(vm) == [vm |-> vm, continue |-> TRUE, panic |-> FALSE]
Stop(vm) == [vm |-> vm, continue |-> FALSE, panic |-> FALSE]
Fault(vm) == [vm |-> vm, continue |-> FALSE, panic |-> TRUE]

\* a register write that also clears the equality flag
SetRegister_clearing_flag(vm, register, value) ==
    IF register > 31 THEN Fault(vm)
    ELSE Continue([vm EXCEPT !.registers[register] = value, !.equality_flag = FALSE])

\* `self.registers[register] = value`
SetRegister(vm, register, value) ==
    IF register > 31 THEN Fault(vm)
    ELSE Continue([vm EXCEPT !.registers[register] = value])

\* `self.program[address..address + n]`, read byte by byte
InImage(vm, address, n) == address <= Len(vm.program) - n
ReadBytes(vm, address, n) == SubSeq(vm.program, address + 1, address + n)

\* WriteBytes that also clears the byte after the last one it writes
WriteBytes_clearing(vm, address, bytes) ==
    LET written == [vm EXCEPT !.program =
                      [k \in 1..Len(vm.program) |->
                          IF k > address /\ k - address <= Len(bytes)
                          THEN bytes[k - address]
                          ELSE IF k - address = Len(bytes) + 1 THEN 0
                          ELSE vm.program[k]]]
    IN  IF InImage(vm, address, Len(bytes)) THEN Continue(written)
        ELSE Fault(written)

\* `self.program[address + k] = bytes[k]` for each byte
WriteBytes(vm, address, bytes) ==
    LET written == [vm EXCEPT !.program =
                      [k \in 1..Len(vm.program) |->
                          IF k > address /\ k - address <= Len(bytes)
                          THEN bytes[k - address] ELSE vm.program[k]]]
    IN  IF InImage(vm, address, Len(bytes)) THEN Continue(written)
        ELSE Fault(written)

-----------------------------------------------------------------------------
(* i32 arithmetic: `+`, `-`, `*` panic on overflow in a debug build and    *)
(* wrap in a release build; `/` and `%` panic on a zero divisor and on     *)
(* MinI32 / -1 in both.                                                    *)

AddOverflows(a, b) == (b > 0 /\ a > MaxI32 - b) \/ (b < 0 /\ a < MinI32 - b)
wrapping_add(a, b) ==
    IF b > 0 /\ a > MaxI32 - b THEN (a - MaxI32 - 1) + (b - MaxI32 - 1)
    ELSE IF b < 0 /\ a < MinI32 - b THEN (a + MaxI32 + 1) + (b + MaxI32 + 1)
    ELSE a + b

SubOverflows(a, b) == (b < 0 /\ a > MaxI32 + b) \/ (b > 0 /\ a < MinI32 + b)
wrapping_sub(a, b) ==
    IF b < 0 /\ a > MaxI32 + b THEN (a - MaxI32 - 1) - (b + MaxI32 + 1)
    ELSE IF b > 0 /\ a < MinI32 + b THEN (a + MaxI32 + 1) - (b - MaxI32 - 1)
    ELSE a - b

\* a * b modulo 2^32 for b >= 0, by doubling
RECURSIVE wrapping_mul_by(_, _)
wrapping_mul_by(a, b) ==
    IF b = 0 THEN 0
    ELSE LET half == wrapping_mul_by(wrapping_add(a, a), b \div 2)
         IN  IF b % 2 = 1 THEN wrapping_add(half, a) ELSE half
\* a negative b is 2^31 + (b + 2^31) modulo 2^32
wrapping_mul(a, b) ==
    IF b >= 0 THEN wrapping_mul_by(a, b)
    ELSE wrapping_add(IF a % 2 = 1 THEN MinI32 ELSE 0, wrapping_mul_by(a, b + MaxI32 + 1))
MulOverflows(a, b) ==
    CASE a = 0 \/ b = 0 -> FALSE
      [] a = -1 -> b = MinI32
      [] b = -1 -> a = MinI32
      [] OTHER -> wrapping_mul(a, b) \div a # b

DivPanics(n, d) == d = 0 \/ (n = MinI32 /\ d = -1)
\* a quotient rounded towards minus infinity
floor_div(n, d) == n \div d
\* `n / d`: the quotient truncated towards zero
truncating_div(n, d) ==
    LET q == n \div d
    IN  IF q * d # n /\ ((n < 0) # (d < 0)) THEN q + 1 ELSE q
\* `n % d`: the remainder with the sign of n
truncating_rem(n, d) == n - truncating_div(n, d) * d

-----------------------------------------------------------------------------
(* VM::execute_instruction.  The operand bytes are b[1], b[2], b[3] of the *)
(* instruction's buffer, read in the order of the next_u8, next_u16 and    *)
(* next_register calls of each arm.  Each arm gives the set of outcomes    *)
(* the builds can produce.                                                 *)

\* `registers[a] = x (op) y` where (op) may overflow
Arithmetic(vm, a, overflows, wrapped, exact) ==
    IF a > 31 THEN {Fault(vm)}
    ELSE IF overflows THEN {Fault(vm), Continue([vm EXCEPT !.registers[a] = wrapped])}
    ELSE {Continue([vm EXCEPT !.registers[a] = exact])}

\* a load-immediate that goes through the signed width: `as i8`, `as i16`
load_immediate_signed(opcode, immediate) ==
    IF opcode = LDBI
    THEN (IF AsU8(immediate) >= 128 THEN AsU8(immediate) - 256 ELSE AsU8(immediate))
    ELSE (IF immediate >= 32768 THEN immediate - 65536 ELSE immediate)

\* LDBI: `next_u16() as u8 as i32`; LDHI: `next_u16() as i32`
load_immediate(opcode, immediate) ==
    IF opcode = LDBI THEN AsU8(immediate) ELSE immediate

\* a load from memory that goes through the signed width at every width
load_memory_signed(bytes) ==
    CASE Len(bytes) = 1 -> (IF bytes[1] >= 128 THEN bytes[1] - 256 ELSE bytes[1])
      [] Len(bytes) = 2 -> I16FromBeBytes(bytes)
      [] OTHER -> I32FromBeBytes(bytes)

\* LDBD/LDBR: `self.program[address] as i32`; LDHD/LDHR: i16::from_be_bytes(..)
\* as i32; LDWD/LDWR: i32::from_be_bytes(..)
load_memory(bytes) ==
    CASE Len(bytes) = 1 -> bytes[1]
      [] Len(bytes) = 2 -> I16FromBeBytes(bytes)
      [] OTHER -> I32FromBeBytes(bytes)

\* the load arms: LDBI .. LDWR
execute_load(vm, opcode, b) ==
    LET r == vm.registers
        immediate == BE16(<<b[2], b[3]>>)
        address == IF opcode \in {LDBD, LDHD, LDWD} THEN immediate
                   ELSE IF b[2] > 31 THEN MaxI32 ELSE I32AsUsize(r[b[2]])
        width == CASE opcode \in {LDBD, LDBR} -> 1
                   [] opcode \in {LDHD, LDHR} -> 2
                   [] OTHER -> 4
    IN  CASE opcode \in {LDBI, LDHI} ->
               {SetRegister(vm, b[1], load_immediate(opcode, immediate))}
          [] OTHER ->
               IF (opcode \in {LDBR, LDHR, LDWR} /\ b[2] > 31) \/ ~InImage(vm, address, width)
               THEN {Fault(vm)}
               ELSE {SetRegister(vm, b[1], load_memory(ReadBytes(vm, address, width)))}

\* a store in little-endian order
store_bytes_le(opcode, value) ==
    CASE opcode \in {STRBI, STRBR} -> <<AsU8(value)>>
      [] opcode \in {STRHI, STRHR} -> <<AsU16(value) % 256, AsU16(value) \div 256>>
      [] OTHER -> I32AsU32ToLeBytes(value)

\* `register as u8`, `(register as u16).to_be_bytes()`, `(register as u32).to_be_bytes()`
store_bytes(opcode, value) ==
    CASE opcode \in {STRBI, STRBR} -> <<AsU8(value)>>
      [] opcode \in {STRHI, STRHR} -> U16ToBeBytes(AsU16(value))
      [] OTHER -> I32AsU32ToBeBytes(value)

\* the store arms: STRBI .. STRWR
execute_store(vm, opcode, b) ==
    LET r == vm.registers
        address == IF opcode \in {STRBI, STRHI, STRWI} THEN BE16(<<b[2], b[3]>>)
                   ELSE IF b[2] > 31 THEN MaxI32 ELSE I32AsUsize(r[b[2]])
    IN  IF b[1] > 31 \/ (opcode \in {STRBR, STRHR, STRWR} /\ b[2] > 31)
        THEN {Fault(vm)}
        ELSE {WriteBytes(vm, address, store_bytes(opcode, r[b[1]]))}

\* register operands with the destination read last
register_operands_destination_last(b) == [a |-> b[3], b |-> b[1], c |-> b[2]]

\* the operands of ADDR, SUBR, MULR and DIVR: register_a by next_u8, then
\* register_b and register_c by next_register
register_operands(b) == [a |-> b[1], b |-> b[2], c |-> b[3]]

\* MOV and the arithmetic arms: ADDR .. DIVI
execute_arithmetic(vm, opcode, b) ==
    LET r == vm.registers
        value == BE16(<<b[2], b[3]>>)
        o == register_operands(b)
    IN  CASE opcode = MOV ->
               IF b[2] > 31 THEN {Fault(vm)} ELSE {SetRegister(vm, b[1], r[b[2]])}
          [] opcode \in {ADDR, SUBR, MULR, DIVR} ->
               IF o.b > 31 \/ o.c > 31 THEN {Fault(vm)}
               ELSE CASE opcode = ADDR ->
                           Arithmetic(vm, o.a, AddOverflows(r[o.b], r[o.c]),
                                      wrapping_add(r[o.b], r[o.c]), r[o.b] + r[o.c])
                      [] opcode = SUBR ->
                           Arithmetic(vm, o.a, SubOverflows(r[o.b], r[o.c]),
                                      wrapping_sub(r[o.b], r[o.c]), r[o.b] - r[o.c])
                      [] opcode = MULR ->
                           Arithmetic(vm, o.a, MulOverflows(r[o.b], r[o.c]),
                                      wrapping_mul(r[o.b], r[o.c]), r[o.b] * r[o.c])
                      [] OTHER ->
                           IF DivPanics(r[o.b], r[o.c]) \/ o.a > 31 THEN {Fault(vm)}
                           ELSE {Continue([vm EXCEPT
                                    !.registers[o.a] = truncating_div(r[o.b], r[o.c]),
                                    !.remainder = truncating_rem(r[o.b], r[o.c])])}
          [] OTHER ->
               IF b[1] > 31 THEN {Fault(vm)}
               ELSE CASE opcode = ADDI ->
                           Arithmetic(vm, b[1], AddOverflows(r[b[1]], value),
                                      wrapping_add(r[b[1]], value), r[b[1]] + value)
                      [] opcode = SUBI ->
                           Arithmetic(vm, b[1], SubOverflows(r[b[1]], value),
                                      wrapping_sub(r[b[1]], value), r[b[1]] - value)
                      [] opcode = MULI ->
                           Arithmetic(vm, b[1], MulOverflows(r[b[1]], value),
                                      wrapping_mul(r[b[1]], value), r[b[1]] * value)
                      [] OTHER ->
                           IF DivPanics(r[b[1]], value) THEN {Fault(vm)}
                           ELSE {Continue([vm EXCEPT
                                    !.registers[b[1]] = truncating_div(r[b[1]], value),
                                    !.remainder = truncating_rem(r[b[1]], value)])}

\* the relations with their sides exchanged
Relation_reversed(opcode, x, y) ==
    CASE opcode \in {EQI, EQR} -> y = x
      [] opcode \in {NEQI, NEQR} -> y # x
      [] opcode \in {GTI, GTR} -> y > x
      [] opcode \in {GTEI, GTER} -> y >= x
      [] opcode \in {LTI, LTR} -> y < x
      [] OTHER -> y <= x

\* the relation of a comparison opcode
Relation(opcode, x, y) ==
    CASE opcode \in {EQI, EQR} -> x = y
      [] opcode \in {NEQI, NEQR} -> x # y
      [] opcode \in {GTI, GTR} -> x > y
      [] opcode \in {GTEI, GTER} -> x >= y
      [] opcode \in {LTI, LTR} -> x < y
      [] OTHER -> x <= y

\* the comparison arms: EQI .. LTER
execute_comparison(vm, opcode, b) ==
    LET r == vm.registers
    IN  IF opcode \in {EQI, NEQI, GTI, GTEI, LTI, LTEI}
        THEN IF b[1] > 31 THEN {Fault(vm)}
             ELSE {Continue([vm EXCEPT !.equality_flag =
                                Relation(opcode, r[b[1]], BE16(<<b[2], b[3]>>))])}
        ELSE IF b[1] > 31 \/ b[2] > 31 THEN {Fault(vm)}
             ELSE {Continue([vm EXCEPT !.equality_flag =
                                Relation(opcode, r[b[1]], r[b[2]])])}

\* conditional jumps that read the flag the wrong way round
jump_taken_inverted(opcode, flag) ==
    CASE opcode \in {JMPEI, JMPED, JMPER} -> ~flag
      [] opcode \in {JMPNEI, JMPNED, JMPNER} -> flag
      [] OTHER -> TRUE

\* `if self.equality_flag`, `if !self.equality_flag`, or no condition
jump_taken(opcode, flag) ==
    CASE opcode \in {JMPEI, JMPED, JMPER} -> flag
      [] opcode \in {JMPNEI, JMPNED, JMPNER} -> ~flag
      [] OTHER -> TRUE

\* the jump arms: JMPI .. JMPNER
execute_jump(vm, opcode, b) ==
    LET taken == jump_taken(opcode, vm.equality_flag)
        address == BE16(<<b[1], b[2]>>)
    IN  IF ~taken THEN {Continue(vm)}
        ELSE CASE opcode \in {JMPI, JMPEI, JMPNEI} -> {Continue([vm EXCEPT !.pc = address])}
               [] opcode \in {JMPD, JMPED, JMPNED} ->
                    IF ~InImage(vm, address, 4) THEN {Fault(vm)}
                    ELSE {Continue([vm EXCEPT !.pc =
                                       U32FromBeBytes(ReadBytes(vm, address, 4))])}
               [] OTHER ->
                    IF b[1] > 31 THEN {Fault(vm)}
                    ELSE {Continue([vm EXCEPT !.pc = I32AsUsize(vm.registers[b[1]])])}

\* the print arms, PRTSD and PRTSR: `while self.program[end] != 0 { end += 1 }`
\* indexes the image from `start` up to the first NUL, and panics on the
\* index len(image) when there is none; the line printed is not state
execute_print(vm, opcode, b) ==
    LET start == IF opcode = PRTSD THEN BE16(<<b[1], b[2]>>)
                 ELSE IF b[1] > 31 THEN MaxI32 ELSE I32AsUsize(vm.registers[b[1]])
    IN  IF opcode = PRTSR /\ b[1] > 31 THEN {Fault(vm)}
        ELSE IF \E k \in 1..Len(vm.program) : k > start /\ vm.program[k] = 0
        THEN {Continue(vm)}
        ELSE {Fault(vm)}

\* a halt that lets the loop go on
execute_halt_continuing(vm) == {Continue(vm)}

\* the HLT arm
execute_halt(vm) == {Stop(vm)}

\* the `_` arm: "Unrecognized opcode found! Terminating!"
execute_unrecognized(vm) == {Stop(vm)}

\* an execute_instruction that leaves pc on the instruction
stay(vm) == vm

\* `self.pc += 4`
advance(vm) == [vm EXCEPT !.pc = vm.pc + 4]

\* VM::execute_instruction
execute_instruction(vm) ==
    IF vm.pc >= Len(vm.program) THEN {Stop(vm)}
    ELSE IF vm.pc + 4 > Len(vm.program) THEN {Fault(vm)}
    ELSE LET instruction == Instruction_from(ReadBytes(vm, vm.pc, 4))
         IN  IF instruction = None THEN {Stop(vm)}
             ELSE LET opcode == instruction[1].opcode
                      b == instruction[1].buffer
                      next == advance(vm)
                  IN  CASE opcode = HLT -> execute_halt(next)
                        [] opcode \in {LDBI, LDBD, LDBR, LDHI, LDHD, LDHR, LDWD, LDWR} ->
                             execute_load(next, opcode, b)
                        [] opcode \in {STRBI, STRBR, STRHI, STRHR, STRWI, STRWR} ->
                             execute_store(next, opcode, b)
                        [] opcode \in {MOV, ADDR, ADDI, SUBR, SUBI, MULR, MULI, DIVR, DIVI} ->
                             execute_arithmetic(next, opcode, b)
                        [] opcode \in {EQI, EQR, NEQI, NEQR, GTI, GTR, GTEI, GTER,
                                        LTI, LTR, LTEI, LTER} ->
                             execute_comparison(next, opcode, b)
                        [] opcode \in {JMPI, JMPD, JMPR, JMPEI, JMPED, JMPER,
                                        JMPNEI, JMPNED, JMPNER} ->
                             execute_jump(next, opcode, b)
                        [] opcode \in {PRTSD, PRTSR} -> execute_print(next, opcode, b)
                        [] OTHER -> execute_unrecognized(next)

-----------------------------------------------------------------------------
(* VM::run and VM::run_once                                                *)

\* bound: calls of run() and run_once() and iterations of run()'s loop
MaxSteps == 6

\* history record of one execute_instruction
Executed(vm, outcome, in_run) ==
    [before |-> vm, after |-> outcome.vm, continue |-> outcome.continue,
     panic |-> outcome.panic, in_run |-> in_run]

\* the VM's fields after execute_instruction came to `outcome`
Becomes(outcome) ==
    /\ registers' = outcome.vm.registers
    /\ vm_pc' = outcome.vm.pc
    /\ vm_program' = outcome.vm.program
    /\ remainder' = outcome.vm.remainder
    /\ equality_flag' = outcome.vm.equality_flag

\* a header field other than the code offset: the data offset at [8..12]
data_offset(image) == U32FromBeBytes(SubSeq(image, 9, 12))

\* run(), lines 30-33: the code offset, big-endian at [16..20] of the image
code_offset(image) == U32FromBeBytes(SubSeq(image, 17, 20))

\* run(), lines 30-34: the code offset is read from the header into pc
Run ==
    /\ vm_mode = "idle"
    /\ steps < MaxSteps
    /\ steps' = steps + 1
    /\ IF Len(vm_program) < 20
       THEN /\ vm_mode' = "panic"
            /\ UNCHANGED <<code_section_start, vm_pc, executed>>
       ELSE /\ code_section_start' = code_offset(vm_program)
            /\ vm_pc' = code_offset(vm_program)
            /\ vm_mode' = "running"
            /\ executed' = <<>>
    /\ UNCHANGED <<registers, vm_program, remainder, equality_flag>>
    /\ UNCHANGED <<asm_vars, call_vars>>

\* run(), line 36: one turn of `while self.execute_instruction() {}`
ExecuteInstruction ==
    /\ vm_mode = "running"
    /\ steps < MaxSteps
    /\ steps' = steps + 1
    /\ \E outcome \in execute_instruction(VMValue) :
          /\ Becomes(outcome)
          /\ vm_mode' = IF outcome.panic THEN "panic"
                        ELSE IF outcome.continue THEN "running" ELSE "idle"
          /\ executed' = Append(executed, Executed(VMValue, outcome, TRUE))
    /\ UNCHANGED code_section_start
    /\ UNCHANGED <<asm_vars, call_vars>>

\* run_once()
RunOnce ==
    /\ vm_mode = "idle"
    /\ steps < MaxSteps
    /\ steps' = steps + 1
    /\ \E outcome \in execute_instruction(VMValue) :
          /\ Becomes(outcome)
          /\ vm_mode' = IF outcome.panic THEN "panic" ELSE "idle"
          /\ executed' = Append(executed, Executed(VMValue, outcome, FALSE))
    /\ UNCHANGED code_section_start
    /\ UNCHANGED <<asm_vars, call_vars>>

-----------------------------------------------------------------------------
(* The programs assemble() is given.                                       *)

\* bound: instructions per program
MaxProgram == 4
\* bound: instructions after the leading `.data` of a data program
MaxDataProgram == 3

SeqsUpTo(S, n) == UNION {[1..k -> S] : k \in 0..n}

\* sections, labelled and unlabelled instructions, every operand kind
Instructions ==
    { new_directive(None, "Data", <<>>),                   \* .data
      new_directive(None, "Code", <<>>),                   \* .code
      new_directive(None, "Ascii", <<>>),                  \* .ascii  (no operands)
      new_directive(Some("a"), "Asciiz", <<String(<<104, 105>>)>>),   \* a: .asciiz 'hi'
      new_opcode(Some("a"), LDBI, <<Register(5), Value(500)>>),       \* a: ldbi $5 500
      new_opcode(Some("b"), HLT, <<>>),                               \* b: hlt
      new_opcode(None, JMPI, <<Label("a")>>),                         \* jmpi @a
      new_opcode(None, LDBI, <<Register(1), Label("b"), Value(2)>>),  \* ldbi $1 @b 2
      new_opcode(None, HLT, <<String(<<120>>)>>),                     \* hlt 'x'
      new_opcode(None, LDBI, <<Register(1), Register(2), Register(3), Label("c")>>)
                                                           \* ldbi $1 $2 $3 @c
    }

\* data directives of every kind, `.align`, `.space`, and an instruction
DataInstructions ==
    { new_directive(None, "Data", <<>>),
      new_directive(None, "Align", <<Value(2)>>),
      new_directive(None, "Align", <<Value(8)>>),
      new_directive(None, "Align", <<Value(0)>>),
      new_directive(None, "Ascii", <<String(<<97>>)>>),               \* .ascii 'a'
      new_directive(Some("a"), "Asciiz", <<String(<<97, 98, 99>>)>>), \* a: .asciiz 'abc'
      new_directive(None, "Byte",
          <<Value(1), Value(-1), Value(300), Value(4), Value(5)>>),
      new_directive(None, "Half", <<Value(100), Value(-2), Value(65836)>>),
      new_directive(None, "Word", <<Value(-2147483647 - 1), Value(2147483647)>>),
      new_directive(None, "Space", <<Value(6)>>),
      new_directive(None, "Space", <<Value(4)>>),
      new_opcode(Some("b"), HLT, <<>>)
    }

Programs == SeqsUpTo(Instructions, MaxProgram)

\* bound: lines per source text
MaxSource == 3

\* lines of text: sections, instructions, registers out of 0..31, more than
\* three operands, a comment, a character no parser takes
Lines ==
    { <<DirectiveToken("code")>>,                                     \* .code
      <<AlphaToken("hlt")>>,                                          \* hlt
      <<LabelDeclarationToken("a"), AlphaToken("ldhi"),
        RegisterToken(1), CommaToken, NumberToken(500)>>,             \* a: ldhi $1, 500
      <<AlphaToken("ldbi"), RegisterToken(100), RegisterToken(-1)>>,  \* ldbi $100 $-1
      <<AlphaToken("jmpi"), LabelUsageToken("a")>>,                   \* jmpi @a
      <<AlphaToken("ldbi"), RegisterToken(1), RegisterToken(2),
        RegisterToken(3), RegisterToken(4)>>,                         \* ldbi $1 $2 $3 $4
      <<DirectiveToken("byte"), NumberToken(1), CommaToken, NumberToken(2), CommaToken,
        NumberToken(3), CommaToken, NumberToken(4), CommaToken, NumberToken(5)>>,
                                                                      \* .byte 1, 2, 3, 4, 5
      <<CommentToken>>,                                               \* ; text
      <<OtherToken>>                                                  \* ?
    }

Sources == {Flatten(lines) : lines \in SeqsUpTo(Lines, MaxSource)}

\* bound: instructions per program of a repeated call
MaxCallProgram == 3

CallInstructions ==
    { new_directive(None, "Code", <<>>),                  \* .code
      new_directive(None, "Data", <<>>),                  \* .data
      new_directive(None, "Align", <<Value(8)>>),         \* .align 8
      new_directive(None, "Ascii", <<String(<<97>>)>>),   \* .ascii 'a'
      new_opcode(None, HLT, <<>>),                        \* hlt
      new_opcode(Some("a"), HLT, <<>>),                   \* a: hlt
      new_opcode(None, JMPI, <<Label("zz")>>)             \* jmpi @zz
    }

CallPrograms == SeqsUpTo(CallInstructions, MaxCallProgram)

DataPrograms ==
    { <<new_directive(None, "Data", <<>>)>> \o p : p \in SeqsUpTo(DataInstructions, MaxDataProgram) }

\* bound: instruction words in the code section of an image
MaxWords == 3

\* instruction words: halt, the load-immediate opcodes, bytes that are no
\* opcode, a jump back, a register byte out of the register file
Words ==
    { <<HLT, 0, 0, 0>>,
      <<LDBI, 0, 255, 255>>,        \* ldbi $0 0xFFFF
      <<LDHI, 0, 255, 255>>,        \* ldhi $0 0xFFFF
      <<LDHI, 2, 1, 244>>,          \* ldhi $2 500
      <<LDBI, 3, 1, 244>>,          \* ldbi $3 500
      <<63, 0, 0, 0>>,              \* 0x3F: no opcode
      <<IGL, 1, 2, 3>>,             \* 0xFF
      <<JMPI, 0, 64, 0>>,           \* jmpi 64
      <<LDHI, 32, 0, 1>>            \* ldhi $32 1
    }

\* the data section of an image: none, or one word
DataSections == {<<>>, <<171, 205, 0, 0>>}

\* images with a given data section and code of given words
ImagesOf(data, words) ==
    { create_header(data, Flatten(code)) \o data \o Flatten(code) :
        code \in SeqsUpTo(words, MaxWords) }

\* words that load from memory: from the header, from the data section at
\* 64, through a register, from beyond the image
LoadWords ==
    { <<LDHI, 3, 0, 64>>,           \* ldhi $3 64
      <<LDBD, 2, 0, 64>>,           \* ldbd $2 64
      <<LDBD, 2, 0, 0>>,            \* ldbd $2 0
      <<LDBR, 2, 3, 0>>,            \* ldbr $2 $3
      <<LDHD, 2, 0, 64>>,           \* ldhd $2 64
      <<LDHD, 2, 0, 0>>,            \* ldhd $2 0
      <<LDHR, 2, 3, 0>>,            \* ldhr $2 $3
      <<LDWD, 2, 0, 64>>,           \* ldwd $2 64
      <<LDWD, 2, 0, 0>>,            \* ldwd $2 0
      <<LDWR, 2, 3, 0>>,            \* ldwr $2 $3
      <<LDWR, 2, 2, 0>>,            \* ldwr $2 $2
      <<LDWD, 2, 255, 255>>         \* ldwd $2 0xFFFF
    }

\* a data section whose first byte, half-word and word have the top bit set
LoadData == <<171, 205, 64, 239>>

\* words that store a register and load it back: at 68 in the data section,
\* through a register, beyond the image
StoreWords ==
    { <<LDWD, 1, 0, 64>>,           \* ldwd $1 64
      <<STRBI, 1, 0, 68>>,          \* strbi $1 68
      <<LDBD, 2, 0, 68>>,           \* ldbd $2 68
      <<STRHI, 1, 0, 68>>,          \* strhi $1 68
      <<LDHD, 2, 0, 68>>,           \* ldhd $2 68
      <<STRWI, 1, 0, 68>>,          \* strwi $1 68
      <<LDWD, 2, 0, 68>>,           \* ldwd $2 68
      <<STRBR, 1, 3, 0>>,           \* strbr $1 $3
      <<LDBR, 2, 3, 0>>,            \* ldbr $2 $3
      <<STRHR, 1, 3, 0>>,           \* strhr $1 $3
      <<LDHR, 2, 3, 0>>,            \* ldhr $2 $3
      <<STRWR, 1, 3, 0>>,           \* strwr $1 $3
      <<LDWR, 2, 3, 0>>,            \* ldwr $2 $3
      <<STRWI, 1, 0, 74>>           \* strwi $1 74
    }

\* a data section of a word with the top bits set and a word to store to
StoreData == <<171, 205, 192, 239, 0, 0, 0, 0>>

\* arithmetic words of the tests, with negative operands, a zero divisor and
\* a product beyond 32 bits
ArithmeticWords ==
    { <<ADDR, 2, 0, 1>>,            \* addr $2 $0 $1
      <<SUBR, 2, 0, 1>>,            \* subr $2 $0 $1
      <<MULR, 2, 1, 0>>,            \* mulr $2 $1 $0
      <<DIVR, 2, 1, 0>>,            \* divr $2 $1 $0
      <<DIVR, 3, 1, 2>>,            \* divr $3 $1 $2
      <<DIVR, 3, 2, 1>>,            \* divr $3 $2 $1
      <<ADDI, 0, 1, 2>>,            \* addi $0 258
      <<SUBI, 0, 0, 8>>,            \* subi $0 8
      <<MULI, 0, 0, 4>>,            \* muli $0 4
      <<DIVI, 0, 0, 4>>,            \* divi $0 4
      <<DIVI, 1, 0, 3>>,            \* divi $1 3
      <<DIVI, 0, 0, 0>>,            \* divi $0 0
      <<MULI, 1, 255, 255>>         \* muli $1 0xFFFF
    }

\* comparison words of the tests, some with the immediate 0xFFFF, and two
\* subtractions that make $0 negative and $1 equal to $0
ComparisonWords ==
    { <<EQI, 0, 0, 5>>,             \* eqi $0 5
      <<EQR, 0, 1, 0>>,             \* eqr $0 $1
      <<NEQI, 0, 255, 255>>,        \* neqi $0 0xFFFF
      <<NEQR, 0, 1, 0>>,            \* neqr $0 $1
      <<GTI, 0, 255, 255>>,         \* gti $0 0xFFFF
      <<GTR, 1, 0, 0>>,             \* gtr $1 $0
      <<GTEI, 0, 0, 5>>,            \* gtei $0 5
      <<GTER, 1, 0, 0>>,            \* gter $1 $0
      <<LTI, 0, 255, 255>>,         \* lti $0 0xFFFF
      <<LTR, 0, 1, 0>>,             \* ltr $0 $1
      <<LTEI, 0, 0, 5>>,            \* ltei $0 5
      <<LTER, 1, 0, 0>>,            \* lter $1 $0
      <<SUBI, 0, 0, 8>>,            \* subi $0 8
      <<SUBI, 1, 0, 5>>             \* subi $1 5
    }

\* jump words: to the third word of the code (72), through the header's
\* code offset at 16 (64), through $1, and words that give $1 a target in
\* the code or a negative value
JumpWords ==
    { <<JMPI, 0, 72, 0>>,           \* jmpi 72
      <<JMPEI, 0, 72, 0>>,          \* jmpei 72
      <<JMPNEI, 0, 72, 0>>,         \* jmpnei 72
      <<JMPED, 0, 16, 0>>,          \* jmped 16
      <<JMPNED, 0, 16, 0>>,         \* jmpned 16
      <<JMPED, 255, 255, 0>>,       \* jmped 0xFFFF
      <<JMPER, 1, 0, 0>>,           \* jmper $1
      <<JMPNER, 1, 0, 0>>,          \* jmpner $1
      <<LDHI, 1, 0, 72>>,           \* ldhi $1 72
      <<SUBI, 1, 0, 11>>            \* subi $1 11
    }

\* one or two words of every group of opcodes: comparisons that set and
\* clear the flag, and loads, a store, a move, arithmetic, a division, jumps,
\* prints (of the data section, of the header, and of the last byte of an
\* image of three words) and a halt to run after them
FlagWords ==
    { <<EQI, 0, 0, 5>>,             \* eqi $0 5
      <<NEQI, 0, 0, 5>>,            \* neqi $0 5
      <<LDBI, 2, 0, 7>>,            \* ldbi $2 7
      <<LDWD, 2, 0, 64>>,           \* ldwd $2 64
      <<STRHI, 1, 0, 64>>,          \* strhi $1 64
      <<MOV, 2, 1, 0>>,             \* mov $2 $1
      <<ADDI, 0, 0, 1>>,            \* addi $0 1
      <<DIVR, 2, 1, 0>>,            \* divr $2 $1 $0
      <<JMPI, 0, 72, 0>>,           \* jmpi 72
      <<JMPEI, 0, 72, 0>>,          \* jmpei 72
      <<PRTSD, 0, 64, 0>>,          \* prtsd 64
      <<PRTSR, 3, 0, 0>>,           \* prtsr $3
      <<PRTSD, 0, 79, 0>>,          \* prtsd 79
      <<HLT, 0, 0, 0>>              \* hlt
    }

\* words that go on, words that stop the loop, a jump that is taken and one
\* that is not while the flag is false, and two bytes that are no whole word
\* (a code section need not be a multiple of 4 bytes long)
TerminationWords ==
    { <<LDBI, 0, 255, 255>>,        \* ldbi $0 0xFFFF
      <<HLT, 0, 0, 0>>,             \* hlt
      <<63, 0, 0, 0>>,              \* 0x3F: no opcode
      <<LDHI, 32, 0, 1>>,           \* ldhi $32 1
      <<JMPI, 0, 64, 0>>,           \* jmpi 64
      <<JMPEI, 0, 64, 0>>,          \* jmpei 64
      <<LDBI, 0>>                   \* 04 00
    }

\* images as the assembler lays them out, and the program of VM::default()
Images ==
    {<<>>} \cup
    { create_header(data, Flatten(code)) \o data \o Flatten(code) :
        data \in DataSections, code \in SeqsUpTo(Words, MaxWords) }

\* the registers of the VM's tests (get_test_vm)
TestRegisters == [i \in 0..31 |-> CASE i = 0 -> 5 [] i = 1 -> 10 [] OTHER -> 0]

-----------------------------------------------------------------------------
(* Specifications                                                          *)

\* Assembler::default(), before assemble() is called
Fresh ==
    /\ pc = "idle"
    /\ idx = 0
    /\ offset = 0
    /\ data_section = <<>>
    /\ code_section = <<>>
    /\ symbols = EmptyTable
    /\ current_section = None
    /\ next_alignment = None
    /\ result = NoResult
    /\ layout = <<>>
    /\ emitted = <<>>

\* no call of assemble() yet
NoCall ==
    /\ at_entry = Fields
    /\ previous = <<>>

\* VM::default()
VMDefault ==
    /\ registers = [i \in 0..31 |-> 0]
    /\ vm_pc = 0
    /\ vm_program = <<>>
    /\ code_section_start = 0
    /\ remainder = 0
    /\ equality_flag = FALSE
    /\ vm_mode = "idle"
    /\ steps = 0
    /\ executed = <<>>

Init == program \in Programs /\ source = <<>> /\ Fresh /\ NoCall /\ VMDefault

InitData == program \in DataPrograms /\ source = <<>> /\ Fresh /\ NoCall /\ VMDefault

InitSource == source \in Sources /\ program = <<>> /\ Fresh /\ NoCall /\ VMDefault

InitCalls == program \in CallPrograms /\ source = <<>> /\ Fresh /\ NoCall /\ VMDefault

\* a VM of the tests on one of `images`, before run() or run_once()
InitVMOn(images, flags) ==
    /\ program = <<>> /\ source = <<>> /\ Fresh /\ NoCall
    /\ registers = TestRegisters
    /\ vm_pc = 0
    /\ vm_program \in images
    /\ code_section_start = 0
    /\ remainder = 0
    /\ equality_flag \in flags
    /\ vm_mode = "idle"
    /\ steps = 0
    /\ executed = <<>>

\* a VM with an image as its program, before run() or run_once()
InitVM ==
    /\ program = <<>> /\ source = <<>> /\ Fresh /\ NoCall
    /\ registers = TestRegisters
    /\ vm_pc = 0
    /\ vm_program \in Images
    /\ code_section_start = 0
    /\ remainder = 0
    /\ equality_flag \in BOOLEAN
    /\ vm_mode = "idle"
    /\ steps = 0
    /\ executed = <<>>

Next ==
    \/ Assemble
    \/ FirstPassOpcode
    \/ FirstPassDirective
    \/ FirstPassDone
    \/ SecondPassOpcode
    \/ SecondPassDirective
    \/ SecondPassDone

Spec == Init /\ [][Next]_vars

\* assemble() of a text, then of the text without its comments
NextSource ==
    \/ AssembleSource
    \/ FirstPassOpcode
    \/ FirstPassDirective
    \/ FirstPassDone
    \/ SecondPassOpcode
    \/ SecondPassDirective
    \/ SecondPassDone
    \/ AssembleWithoutComments

SpecSource == InitSource /\ [][NextSource]_vars

\* assemble() called MaxCalls times on one Assembler
NextCalls ==
    \/ Assemble
    \/ FirstPassOpcode
    \/ FirstPassDirective
    \/ FirstPassDone
    \/ SecondPassOpcode
    \/ SecondPassDirective
    \/ SecondPassDone
    \/ AssembleAgain

SpecCalls == InitCalls /\ [][NextCalls]_vars

\* the virtual machine on an image
NextVM ==
    \/ Run
    \/ ExecuteInstruction
    \/ RunOnce

SpecVM == InitVM /\ [][NextVM]_vars

\* the virtual machine on images that run to their end, with run()'s
\* `while self.execute_instruction() {}` going on to its next turn
SpecTermination ==
    /\ InitVMOn(ImagesOf(<<>>, TerminationWords), {FALSE})
    /\ [][NextVM]_vars
    /\ WF_vars(ExecuteInstruction)

\* the virtual machine on images that store and load back
SpecStores == InitVMOn(ImagesOf(StoreData, StoreWords), {FALSE}) /\ [][NextVM]_vars

\* the virtual machine on images that compute
SpecArithmetic == InitVMOn(ImagesOf(<<>>, ArithmeticWords), {FALSE}) /\ [][NextVM]_vars

\* the virtual machine on images that compare
SpecComparisons == InitVMOn(ImagesOf(<<>>, ComparisonWords), {FALSE}) /\ [][NextVM]_vars

\* the virtual machine on images that jump
SpecJumps == InitVMOn(ImagesOf(<<>>, JumpWords), BOOLEAN) /\ [][NextVM]_vars

\* the virtual machine on images with every group of opcodes, on the data
\* section of `.asciiz 'hi'`
SpecFlags == InitVMOn(ImagesOf(<<104, 105, 0, 0>>, FlagWords), {FALSE}) /\ [][NextVM]_vars

\* the virtual machine on images that load from memory
SpecLoads == InitVMOn(ImagesOf(LoadData, LoadWords), {FALSE}) /\ [][NextVM]_vars

SpecData == InitData /\ [][Next]_vars

-----------------------------------------------------------------------------
(* Vocabulary of the properties                                            *)

Terminal == pc \in {"done", "panic"}

\* big-endian decoding
BE32(b) == ((b[1] * 256 + b[2]) * 256 + b[3]) * 256 + b[4]

\* number of bytes pass 2 appended to a buffer
RECURSIVE EmittedTo(_, _)
EmittedTo(section, k) ==
    IF k = 0 THEN 0
    ELSE EmittedTo(section, k - 1)
         + (IF emitted[k].section = section THEN Len(emitted[k].bytes) ELSE 0)

EmittedData == EmittedTo("data", Len(emitted))
EmittedCode == EmittedTo("code", Len(emitted))

\* the instruction is a data directive that pass 2 sizes with align()
IsAlignedDirective(instruction) ==
    /\ instruction.kind = "Directive"
    /\ instruction.operands # <<>>
    /\ instruction.directive \in {"Ascii", "Asciiz", "Byte", "Half", "Word"}

\* the instruction is a data-emitting directive
IsDataDirective(instruction) ==
    /\ instruction.kind = "Directive"
    /\ instruction.operands # <<>>
    /\ instruction.directive \in SizedDirectives

\* the instruction declares its label (a labelled opcode or data directive)
Declares(instruction) ==
    /\ instruction.label # None
    /\ \/ instruction.kind = "Opcode"
       \/ /\ instruction.kind = "Directive"
          /\ instruction.operands # <<>>
          /\ instruction.directive \in SizedDirectives

DeclaredLabels == {program[i].label[1] : i \in {k \in 1..Len(program) : Declares(program[k])}}

\* index in the final image (0-based) of the first byte pass 2 appended for instruction i
ImageIndex(i) ==
    IF emitted[i].section = "data"
    THEN PIE_HEADER_LENGTH + emitted[i].start
    ELSE PIE_HEADER_LENGTH + Len(data_section) + emitted[i].start

-----------------------------------------------------------------------------
\* C1: every image assemble() returns has the header "EPIE", 0, BE 64, BE D,
\* BE 64+D, BE C, zero up to byte 64, and length 64 + D + C, where D and C are
\* the bytes emitted to the data and to the code section.
C1_HeaderInvariant ==
    result.tag = "Ok" =>
        LET image == result.image
            D == EmittedData
            C == EmittedCode
        IN  /\ Len(image) = 64 + D + C
            /\ SubSeq(image, 1, 4) = <<69, 80, 73, 69>>
            /\ SubSeq(image, 5, 8) = <<0, 0, 0, 0>>
            /\ BE32(SubSeq(image, 9, 12)) = 64
            /\ BE32(SubSeq(image, 13, 16)) = D
            /\ BE32(SubSeq(image, 17, 20)) = 64 + D
            /\ BE32(SubSeq(image, 21, 24)) = C
            /\ \A k \in 25..64 : image[k] = 0

C1_Witness ==
    /\ result.tag = "Ok"
    /\ EmittedData > 0
    /\ EmittedCode > 4

-----------------------------------------------------------------------------
\* C2: pass 2 emits every opcode instruction as exactly 4 bytes (the opcode
\* byte, the operand bytes, zero padding), so the code section's length is a
\* multiple of 4.
C2_InstructionIsFourBytes ==
    /\ \A i \in 1..Len(emitted) :
          program[i].kind = "Opcode" =>
              /\ Len(emitted[i].bytes) = 4
              /\ emitted[i].bytes[1] = program[i].opcode
    /\ Len(code_section) % 4 = 0

-----------------------------------------------------------------------------
\* C3: in an assembled program, the offset a reference @L is encoded as is the
\* index in the final image of the first byte of the encoding of the
\* instruction or data directive labelled L.  Stated for the programs whose
\* opcode instructions all encode to 4 bytes, to keep it apart from C2.
C3_LabelResolvesToItsEncoding ==
    (/\ result.tag = "Ok"
     /\ \A k \in 1..Len(program) :
           program[k].kind = "Opcode" => Len(emitted[k].bytes) = 4) =>
        \A i \in 1..Len(program) :
            (Declares(program[i]) /\ emitted[i].bytes # <<>>) =>
                /\ operand_bytes(Label(program[i].label[1]), symbols) # None
                /\ BE16(operand_bytes(Label(program[i].label[1]), symbols)[1]) = ImageIndex(i)
                /\ SubSeq(result.image, ImageIndex(i) + 1,
                          ImageIndex(i) + Len(emitted[i].bytes)) = emitted[i].bytes

-----------------------------------------------------------------------------
\* every `.align` value of the program is a positive multiple of 4 and every
\* `.space` size a multiple of 4
FourAlignedProgram ==
    \A i \in 1..Len(program) :
        (program[i].kind = "Directive" /\ first_is(program[i].operands, "Value")) =>
            /\ program[i].directive = "Align" =>
                  program[i].operands[1].num > 0 /\ program[i].operands[1].num % 4 = 0
            /\ program[i].directive = "Space" =>
                  program[i].operands[1].num >= 0 /\ program[i].operands[1].num % 4 = 0

\* C4 as claimed: in every assembled image the code offset 64 + D, and with it
\* the start of every code-section instruction, is a multiple of 4, whatever
\* `.align` values and `.space` sizes the program used.
C4_CodeStartsFourAligned ==
    result.tag = "Ok" =>
        /\ BE32(SubSeq(result.image, 17, 20)) % 4 = 0
        /\ \A i \in 1..Len(program) :
              program[i].kind = "Opcode" => ImageIndex(i) % 4 = 0

\* C4 as amended: the code offset 64 + D is a multiple of 4 when every
\* `.align` value of the program is a positive multiple of 4 and every
\* `.space` size a multiple of 4.
C4_CodeStartsFourAlignedIfDataIs ==
    (result.tag = "Ok" /\ FourAlignedProgram) =>
        /\ BE32(SubSeq(result.image, 17, 20)) % 4 = 0
        /\ Len(data_section) % 4 = 0

C4_Witness ==
    /\ result.tag = "Ok"
    /\ FourAlignedProgram
    /\ \E i \in 1..Len(emitted) :
          /\ emitted[i].section = "data"
          /\ emitted[i].alignment = 8
          /\ Len(payload(program[i])) % 4 # 0
    /\ code_section # <<>>

-----------------------------------------------------------------------------
\* C5 as claimed: after each sized data directive (.ascii, .asciiz, .byte,
\* .half, .word) the running layout offset is congruent to 0 modulo the
\* directive's effective alignment.
C5_OffsetAlignedAfterDirective ==
    \A i \in 1..Len(layout) :
        IsAlignedDirective(program[i]) =>
            (layout[i].offset + layout[i].size) % layout[i].alignment = 0

\* C5 as amended: each sized data directive advances the running layout
\* offset (pass 1) and grows the section (pass 2) by a multiple of its
\* effective alignment, which is positive.
C5_DirectiveSizeIsAligned ==
    /\ \A i \in 1..Len(layout) :
          IsAlignedDirective(program[i]) =>
              /\ layout[i].alignment > 0
              /\ layout[i].size % layout[i].alignment = 0
              /\ i < Len(layout) => layout[i + 1].offset = layout[i].offset + layout[i].size
              /\ i = Len(layout) => offset = layout[i].offset + layout[i].size
    /\ \A i \in 1..Len(emitted) :
          IsAlignedDirective(program[i]) =>
              /\ emitted[i].alignment > 0
              /\ Len(emitted[i].bytes) % emitted[i].alignment = 0

C5_Witness ==
    /\ pc = "done"
    /\ \E i \in 1..Len(emitted) :
          /\ IsAlignedDirective(program[i])
          /\ emitted[i].alignment = 8
          /\ layout[i].alignment = 8
          /\ layout[i].offset % 8 # 0
          /\ layout[i].size = 8

-----------------------------------------------------------------------------
\* ceil(x / a) * a: the least multiple of a that is at least x
CeilToMultiple(x, a) == CHOOSE m \in x..(x + a) : m % a = 0 /\ m - x < a

NumberOfValues(operands) ==
    Cardinality({k \in 1..Len(operands) : operands[k].tag = "Value"})

\* the sizing table's payload length of a directive
TablePayloadLen(instruction) ==
    CASE instruction.directive = "Ascii" -> Len(instruction.operands[1].bytes)
      [] instruction.directive = "Asciiz" -> Len(instruction.operands[1].bytes) + 1
      [] instruction.directive = "Byte" -> NumberOfValues(instruction.operands)
      [] instruction.directive = "Half" -> 2 * NumberOfValues(instruction.operands)
      [] instruction.directive = "Word" -> 4 * NumberOfValues(instruction.operands)

\* C6: the bytes pass 2 appends for a data directive follow the sizing table:
\* with a the pending alignment or 4, .ascii s gives align(len(s), a) bytes,
\* .asciiz s align(len(s) + 1, a), .byte/.half/.word with n values align(n, a),
\* align(2n, a), align(4n, a); .space n gives exactly n zero bytes; .align gives
\* none; the padding is zero and follows the payload.
C6_SizingTable ==
    \A i \in 1..Len(emitted) :
        LET instruction == program[i]
            bytes == emitted[i].bytes
            a == emitted[i].alignment
        IN  /\ (IsAlignedDirective(instruction)
                  /\ (instruction.directive \in {"Ascii", "Asciiz"}
                        => first_is(instruction.operands, "String"))) =>
                  /\ Len(bytes) = CeilToMultiple(TablePayloadLen(instruction), a)
                  /\ \A k \in (TablePayloadLen(instruction) + 1)..Len(bytes) : bytes[k] = 0
                  /\ instruction.directive = "Ascii" =>
                        SubSeq(bytes, 1, TablePayloadLen(instruction))
                            = instruction.operands[1].bytes
                  /\ instruction.directive = "Asciiz" =>
                        SubSeq(bytes, 1, TablePayloadLen(instruction))
                            = instruction.operands[1].bytes \o <<0>>
            /\ (/\ instruction.kind = "Directive"
                /\ instruction.directive = "Space"
                /\ first_is(instruction.operands, "Value")) =>
                  /\ Len(bytes) = instruction.operands[1].num
                  /\ \A k \in 1..Len(bytes) : bytes[k] = 0
            /\ (instruction.kind = "Directive" /\ instruction.directive = "Align") =>
                  bytes = <<>>

C6_Witness ==
    /\ pc = "done"
    /\ \E i \in 1..Len(emitted) :
          /\ program[i].directive = "Asciiz"
          /\ emitted[i].alignment = 2
          /\ Len(emitted[i].bytes) = 4
    /\ \E i \in 1..Len(emitted) :
          /\ program[i].directive = "Space"
          /\ Len(emitted[i].bytes) = 6

-----------------------------------------------------------------------------
\* the 32-bit two's-complement pattern of an i32, most significant byte first
TwosComplement32(v) ==
    LET u == IF v < 0 THEN (v + 2147483647) + 1 ELSE v   \* v without its sign bit
    IN  <<(IF v < 0 THEN 128 ELSE 0) + u \div 16777216,
          (u \div 65536) % 256, (u \div 256) % 256, u % 256>>

\* the table's payload of a numeric directive, value by value
RECURSIVE NumericPayload(_, _)
NumericPayload(width, operands) ==
    IF operands = <<>> THEN <<>>
    ELSE (IF Head(operands).tag = "Value"
          THEN SubSeq(TwosComplement32(Head(operands).num), 5 - width, 4)
          ELSE <<>>)
         \o NumericPayload(width, Tail(operands))

DirectiveWidth(directive) ==
    CASE directive = "Byte" -> 1 [] directive = "Half" -> 2 [] directive = "Word" -> 4

\* C7: the payload of .byte is the low 8 bits of each value, of .half each
\* value truncated to 16 bits, big-endian, of .word each value's 32-bit
\* two's-complement pattern, big-endian, in argument order; -2147483648 is
\* 80 00 00 00 and 2147483647 is 7F FF FF FF.
C7_NumericPayload ==
    /\ \A i \in 1..Len(emitted) :
          (/\ program[i].kind = "Directive"
           /\ program[i].operands # <<>>
           /\ program[i].directive \in {"Byte", "Half", "Word"}) =>
              LET expected == NumericPayload(DirectiveWidth(program[i].directive),
                                             program[i].operands)
              IN  SubSeq(emitted[i].bytes, 1, Len(expected)) = expected
    /\ \A i \in 1..Len(emitted) :
          (program[i] = new_directive(None, "Word",
                            <<Value(-2147483647 - 1), Value(2147483647)>>)) =>
              SubSeq(emitted[i].bytes, 1, 8) = <<128, 0, 0, 0, 127, 255, 255, 255>>

C7_Witness ==
    /\ pc = "done"
    /\ \E i \in 1..Len(emitted) :
          /\ program[i].directive = "Word"
          /\ SubSeq(data_section, emitted[i].start + 1, emitted[i].start + 8)
                = <<128, 0, 0, 0, 127, 255, 255, 255>>
    /\ \E i \in 1..Len(emitted) :
          /\ program[i].directive = "Half"
          /\ emitted[i].bytes = <<0, 100, 255, 254, 1, 44, 0, 0>>
    /\ \E i \in 1..Len(emitted) :
          /\ program[i].directive = "Byte"
          /\ SubSeq(emitted[i].bytes, 1, 5) = <<1, 255, 44, 4, 5>>

-----------------------------------------------------------------------------
\* instructions i < j declare the same label name
DeclaredTwice(i, j) ==
    /\ i < j
    /\ Declares(program[i])
    /\ Declares(program[j])
    /\ program[i].label = program[j].label

\* pass 1 went through instructions 1..j-1 without failing
FirstPassReached(j) == Len(layout) >= j - 1

\* C8 as claimed: a program that declares the same label name twice makes
\* assemble() fail with SymbolAlreadyDeclared.
C8_DuplicateLabelRejected ==
    (Terminal /\ \E i, j \in 1..Len(program) : DeclaredTwice(i, j)) =>
        result = Err("SymbolAlreadyDeclared")

\* C8 as amended: when pass 1 reaches the second declaration of a label name,
\* assemble() fails with SymbolAlreadyDeclared and returns no image.
C8_ReachedDuplicateLabelRejected ==
    (Terminal /\ \E i, j \in 1..Len(program) : DeclaredTwice(i, j) /\ FirstPassReached(j)) =>
        /\ result = Err("SymbolAlreadyDeclared")
        /\ result.image = <<>>
        /\ pc = "done"

C8_Witness ==
    /\ result = Err("SymbolAlreadyDeclared")
    /\ \E i, j \in 1..Len(program) :
          /\ DeclaredTwice(i, j)
          /\ program[i].kind = "Directive"
          /\ program[j].kind = "Opcode"
          /\ idx = j

-----------------------------------------------------------------------------
\* instruction i comes before any `.data` / `.code` directive
BeforeAnySection(i) ==
    \A k \in 1..(i - 1) :
        ~(/\ program[k].kind = "Directive"
          /\ program[k].directive \in {"Data", "Code"}
          /\ program[k].operands = <<>>)

\* C9: a program with a data-emitting directive or a labelled opcode
\* instruction before any `.data` / `.code` directive makes assemble() fail
\* with NoSegmentDeclarationFound; assemble() never succeeds for it.  Stated
\* by its last clause: no image is returned for such a program.
C9_NoSectionRejected ==
    (Terminal /\ \E i \in 1..Len(program) :
                    /\ BeforeAnySection(i)
                    /\ Declares(program[i]) \/ IsDataDirective(program[i])) =>
        result.tag # "Ok"

-----------------------------------------------------------------------------
\* the operand is a reference to a label nothing declares, or a string literal
BadOperand(operand) ==
    \/ operand.tag = "String"
    \/ operand.tag = "Label" /\ operand.name \notin DeclaredLabels

\* C10 as claimed: an opcode instruction with an operand that refers to an
\* undeclared label or is a string literal makes assemble() fail with
\* IncorrectOperand.
C10_BadOperandRejected ==
    (Terminal /\ \E i \in 1..Len(program) :
                    /\ program[i].kind = "Opcode"
                    /\ \E k \in 1..Len(program[i].operands) :
                          BadOperand(program[i].operands[k])) =>
        result = Err("IncorrectOperand")

\* C10 as amended: when pass 1 succeeds and pass 2 reaches an opcode
\* instruction one of whose first three operands refers to an undeclared
\* label or is a string literal, assemble() fails with IncorrectOperand and
\* returns no image.
C10_ReachedBadOperandRejected ==
    (Terminal /\ \E i \in 1..Len(program) :
                    /\ program[i].kind = "Opcode"
                    /\ \E k \in 1..Len(program[i].operands) :
                          k <= 3 /\ BadOperand(program[i].operands[k])
                    /\ Len(layout) = Len(program)
                    /\ Len(emitted) >= i - 1) =>
        /\ result = Err("IncorrectOperand")
        /\ result.image = <<>>

C10_Witness ==
    /\ result = Err("IncorrectOperand")
    /\ Len(emitted) >= 2
    /\ program[idx].kind = "Opcode"
    /\ \E k \in 1..Len(program[idx].operands) : program[idx].operands[k].tag = "Label"
    /\ \A k \in 1..Len(program[idx].operands) : program[idx].operands[k].name # "c"

-----------------------------------------------------------------------------
\* the text has a token of the class
HasToken(text, class) == \E k \in 1..Len(text) : text[k].t = class

\* C11: a source with text the parser cannot tokenise or structure as an
\* instruction makes assemble() fail with ParseError; no image built from the
\* prefix that did parse is returned.  Stated by its last clause.
C11_UnparsedTextRejected ==
    (Terminal /\ HasToken(source, "other")) => result.tag # "Ok"

-----------------------------------------------------------------------------
\* C12: a second assemble() on the same Assembler with the same source
\* returns exactly what the first call returned.
C12_SecondCallSameResult ==
    (/\ pc = "done"
     /\ previous # <<>>
     /\ program = previous[Len(previous)].program) =>
        result = previous[Len(previous)].result

-----------------------------------------------------------------------------
\* what a new Assembler returns for ValidProgram
ValidImage == create_header(<<>>, <<HLT, 0, 0, 0>>) \o <<HLT, 0, 0, 0>>

\* C13: after assemble() returned an error the Assembler's symbol table,
\* buffers, current section and pending alignment are what they were when the
\* call was entered, and a following assemble() of a valid program returns
\* the image a new Assembler returns for it.
C13_FailedCallLeavesNoTrace ==
    /\ (pc = "done" /\ result.tag = "Err") => Fields = at_entry
    /\ (/\ pc = "done"
        /\ previous # <<>>
        /\ previous[Len(previous)].result.tag = "Err"
        /\ program = ValidProgram) =>
           result = Ok(ValidImage)

-----------------------------------------------------------------------------
\* number of bytes pass 2 writes for an operand
EncodedLen(operand) == IF operand.tag = "Register" THEN 1 ELSE 2

\* index in the instruction's bytes of the first byte of its k-th operand
RECURSIVE OperandIndex(_, _)
OperandIndex(operands, k) ==
    IF k = 1 THEN 2 ELSE OperandIndex(operands, k - 1) + EncodedLen(operands[k - 1])

\* C14: every register operand byte of every instruction in an image the
\* assembler returns is in 0..31, for every source the parser accepts.
C14_RegisterByteBelow32 ==
    result.tag = "Ok" =>
      \A i \in 1..Len(emitted) :
        program[i].kind = "Opcode" =>
            \A k \in 1..Len(take(program[i].operands, 3)) :
                program[i].operands[k].tag = "Register" =>
                    emitted[i].bytes[OperandIndex(program[i].operands, k)] \in 0..31

-----------------------------------------------------------------------------
\* the positions in the text where an instruction starts after its label
Heads(text) == {k \in 1..Len(text) : text[k].t \in {"alpha", "directive"}}

OperandClasses == {"register", "number", "label_usage", "string"}

\* the operand tokens written after the head at k, up to the next head
OperandTokensAfter(text, k) ==
    {j \in (k + 1)..Len(text) :
        /\ text[j].t \in OperandClasses
        /\ \A h \in Heads(text) : ~(k < h /\ h < j)}

\* the text has instructions only: no comment, no character no parser takes
InstructionsOnly(text) == ~HasToken(text, "comment") /\ ~HasToken(text, "other")

\* C15 as claimed: every instruction record of a parse has at most 3 operands.
C15_AtMostThreeOperands ==
    \A i \in 1..Len(program) : Len(program[i].operands) <= 3

\* C15 as amended: the parse of a text of instructions has one record per
\* instruction, with exactly the operands written after its opcode or
\* directive, however many.
C15_EveryOperandParsed ==
    (pc # "idle" /\ InstructionsOnly(source)) =>
        /\ Len(program) = Cardinality(Heads(source))
        /\ \A k \in Heads(source) :
              LET i == Cardinality({h \in Heads(source) : h <= k})
              IN  Len(program[i].operands) = Cardinality(OperandTokensAfter(source, k))

C15_Witness ==
    /\ result.tag = "Ok"
    /\ InstructionsOnly(source)
    /\ \E i \in 1..Len(program) :
          program[i].kind = "Directive" /\ Len(program[i].operands) = 5
    /\ \E i \in 1..Len(program) :
          program[i].kind = "Opcode" /\ Len(program[i].operands) = 4

-----------------------------------------------------------------------------
\* C16: assembling a source with comments gives the image that assembling
\* the source with the comments removed gives.  Stated for the sources whose
\* other text is instructions and that assemble both ways, to keep it apart
\* from C11 and from the errors of the assembler.
C16_CommentsChangeNothing ==
    (/\ pc = "done"
     /\ previous # <<>>
     /\ source = StripComments(previous[1].source)
     /\ ~HasToken(source, "other")
     /\ result.tag = "Ok"
     /\ previous[1].result.tag = "Ok") =>
        result.image = previous[1].result.image

\* the opcode byte execute_instruction fetches in `vm`, -1 if it fetches none
FetchedByte(vm) ==
    IF vm.pc <= Len(vm.program) - 4 THEN vm.program[vm.pc + 1] ELSE -1

\* what an instruction that only ends the loop leaves behind: pc moved by 4,
\* registers, flag, remainder and image as they were, "stop" returned
OnlyStops(e) ==
    /\ ~e.panic
    /\ ~e.continue
    /\ e.after.pc = e.before.pc + 4
    /\ e.after.registers = e.before.registers
    /\ e.after.equality_flag = e.before.equality_flag
    /\ e.after.remainder = e.before.remainder
    /\ e.after.program = e.before.program

\* the i-th executed instruction, if run() executed it, was the last of its run
EndsRun(i) ==
    executed[i].in_run =>
        /\ i < Len(executed) => ~executed[i + 1].in_run
        /\ i = Len(executed) => vm_mode = "idle"

-----------------------------------------------------------------------------
(* C17                                                                     *)

\* run() has been entered and execute_instruction not yet called
RunEntered == vm_mode = "running" /\ executed = <<>>

\* run() has come to its end: its loop ran and execute_instruction said stop
RunEnded == vm_mode = "idle" /\ executed # <<>> /\ executed[Len(executed)].in_run

\* an image with no data whose code section is the one word at offset 64
OneWordImage(word) == create_header(<<>>, word) \o word

\* the value a load-immediate word carries: two bytes for LDHI, one for LDBI
ImmediateOf(word) == IF word[1] = LDBI THEN word[4] ELSE 256 * word[3] + word[4]

C17_WitnessData ==
    /\ RunEntered
    /\ steps > 1
    /\ code_section_start = 68

-----------------------------------------------------------------------------
(* C18                                                                     *)

\* C18: executing HLT returns stop and ends run()'s loop: pc is the HLT's
\* address + 4, run() executes no instruction after it, and registers,
\* equality_flag, remainder and the image are as before the HLT.
C18_HaltStops ==
    \A i \in 1..Len(executed) :
        FetchedByte(executed[i].before) = HLT =>
            OnlyStops(executed[i]) /\ EndsRun(i)

\* run() on `ldhi $2 500; hlt; ldhi $0 0xFFFF` ended at the HLT: pc = 72 and
\* the load after it did not happen
C18_Witness ==
    /\ RunEnded
    /\ vm_program = create_header(<<>>, <<LDHI, 2, 1, 244, HLT, 0, 0, 0, LDHI, 0, 255, 255>>)
                       \o <<LDHI, 2, 1, 244, HLT, 0, 0, 0, LDHI, 0, 255, 255>>
    /\ Len(executed) = 2
    /\ FetchedByte(executed[2].before) = HLT
    /\ vm_pc = 72
    /\ registers[2] = 500
    /\ registers[0] = 5

-----------------------------------------------------------------------------
(* C19                                                                     *)

\* the byte is no opcode the VM implements
Unimplemented(byte) == byte \in 0..255 /\ byte \notin Opcodes \ {IGL}

\* C19: a word whose opcode byte is no implemented opcode decodes, to IGL;
\* execute_instruction on it moves pc by 4, changes no register, flag or
\* image byte and returns stop, and run() executes nothing after it.
C19_UnknownByteIsIGL ==
    \A i \in 1..Len(executed) :
        LET vm == executed[i].before
        IN  Unimplemented(FetchedByte(vm)) =>
              /\ Instruction_from(ReadBytes(vm, vm.pc, 4)) # None
              /\ Instruction_from(ReadBytes(vm, vm.pc, 4))[1].opcode = IGL
              /\ OnlyStops(executed[i])
              /\ EndsRun(i)

\* run() on `0x3F 0 0 0; ldhi $2 500` ended at the first word: pc = 68 and
\* the load after it did not happen
C19_Witness ==
    /\ RunEnded
    /\ vm_program = create_header(<<>>, <<63, 0, 0, 0, LDHI, 2, 1, 244>>)
                       \o <<63, 0, 0, 0, LDHI, 2, 1, 244>>
    /\ Len(executed) = 1
    /\ FetchedByte(executed[1].before) = 63
    /\ vm_pc = 68
    /\ registers[2] = 0

-----------------------------------------------------------------------------
(* C20                                                                     *)

\* the word execute_instruction fetches in `vm`, empty if it fetches none
FetchedWord(vm) ==
    IF vm.pc <= Len(vm.program) - 4
    THEN SubSeq(vm.program, vm.pc + 1, vm.pc + 4) ELSE <<>>

\* the i-th executed instruction is a load-immediate into a register
LoadsImmediate(i) ==
    /\ FetchedByte(executed[i].before) \in {LDBI, LDHI}
    /\ FetchedWord(executed[i].before)[2] < 32

\* the register the i-th executed instruction names, after it
Loaded(i) == executed[i].after.registers[FetchedWord(executed[i].before)[2]]

\* two's-complement reading of the low `bits` bits of a 16-bit value
Signed(value, bits) ==
    IF (value % (2 ^ bits)) >= 2 ^ (bits - 1)
    THEN (value % (2 ^ bits)) - 2 ^ bits
    ELSE value % (2 ^ bits)

\* C20 (as claimed): LDBI leaves the register at the immediate's low 8 bits
\* read as a signed 8-bit integer, LDHI at the 16-bit immediate read as a
\* signed 16-bit integer (0xFFFF gives -1 in both cases).
C20_LoadImmediateSignExtends ==
    \A i \in 1..Len(executed) :
        LoadsImmediate(i) =>
            LET word == FetchedWord(executed[i].before)
            IN  Loaded(i) = Signed(256 * word[3] + word[4],
                                   IF word[1] = LDBI THEN 8 ELSE 16)

\* C20 (amended): the load-immediate opcodes zero-extend: LDBI leaves the
\* register at the immediate's low 8 bits as 0..255, LDHI at the 16-bit
\* immediate as 0..65535 (0xFFFF gives 255 and 65535), and execution goes on
\* at the next word.
C20_LoadImmediateZeroExtends ==
    \A i \in 1..Len(executed) :
        LoadsImmediate(i) =>
            LET word == FetchedWord(executed[i].before)
            IN  /\ Loaded(i) = IF word[1] = LDBI THEN word[4]
                                ELSE 256 * word[3] + word[4]
                /\ Loaded(i) >= 0
                /\ executed[i].continue
                /\ executed[i].after.pc = executed[i].before.pc + 4

\* run() on `ldbi $0 0xFFFF; ldhi $0 0xFFFF`: 255 after the first, 65535
\* after the second
C20_Witness ==
    /\ RunEnded
    /\ Len(executed) = 3
    /\ FetchedWord(executed[1].before) = <<LDBI, 0, 255, 255>>
    /\ executed[1].after.registers[0] = 255
    /\ FetchedWord(executed[2].before) = <<LDHI, 0, 255, 255>>
    /\ executed[2].after.registers[0] = 65535
    /\ registers[0] = 65535

-----------------------------------------------------------------------------
(* C21                                                                     *)

LoadOpcodes == {LDBD, LDBR, LDHD, LDHR, LDWD, LDWR}

\* the number of bytes a load or store opcode moves
WidthOf(opcode) ==
    CASE opcode \in {LDBD, LDBR, STRBI, STRBR} -> 1
      [] opcode \in {LDHD, LDHR, STRHI, STRHR} -> 2
      [] OTHER -> 4

\* the i-th executed instruction is a load from memory that did not panic
LoadsMemory(i) ==
    /\ FetchedByte(executed[i].before) \in LoadOpcodes
    /\ ~executed[i].panic

\* the address the i-th executed instruction names in its last operand: the
\* 16-bit immediate (D forms) or the value of a register (R forms)
AddressOf(i) ==
    LET vm == executed[i].before
        word == FetchedWord(vm)
    IN  IF word[1] \in {LDBD, LDHD, LDWD, STRBI, STRHI, STRWI}
        THEN 256 * word[3] + word[4]
        ELSE vm.registers[word[3]]

\* big-endian value of a byte sequence, unsigned
RECURSIVE UnsignedBE(_)
UnsignedBE(bytes) ==
    IF bytes = <<>> THEN 0
    ELSE 256 * UnsignedBE(SubSeq(bytes, 1, Len(bytes) - 1)) + bytes[Len(bytes)]

\* big-endian value of a byte sequence, two's complement
SignedBE(bytes) ==
    LET low == UnsignedBE(<<bytes[1] % 128>> \o Tail(bytes))
        half == 2 ^ (8 * Len(bytes) - 2)
    IN  IF bytes[1] >= 128 THEN (low - half) - half ELSE low

\* the bytes of the image the i-th executed instruction names
Addressed(i) ==
    SubSeq(executed[i].before.program, AddressOf(i) + 1,
           AddressOf(i) + WidthOf(FetchedByte(executed[i].before)))

\* C21 (as claimed): a load from memory leaves the register at the 1, 2 or 4
\* bytes at the address, big-endian, sign-extended: a byte >= 0x80 gives a
\* negative register.
C21_LoadSignExtends ==
    \A i \in 1..Len(executed) :
        LoadsMemory(i) => Loaded(i) = SignedBE(Addressed(i))

\* C21 (amended): a load from memory leaves the register at the 1, 2 or 4
\* bytes at the address, big-endian; the half-word is sign-extended, the
\* word is the register's 32 bits, and the byte is zero-extended (0..255).
C21_LoadByteZeroExtends ==
    \A i \in 1..Len(executed) :
        LoadsMemory(i) =>
            /\ AddressOf(i) >= 0
            /\ AddressOf(i) + WidthOf(FetchedByte(executed[i].before))
                  <= Len(executed[i].before.program)
            /\ Loaded(i) = IF WidthOf(FetchedByte(executed[i].before)) = 1
                           THEN UnsignedBE(Addressed(i))
                           ELSE SignedBE(Addressed(i))
            /\ executed[i].continue
            /\ executed[i].after.pc = executed[i].before.pc + 4

\* run() on `ldbd $2 64; ldhd $2 64; ldwd $2 64` over the data AB CD 40 EF:
\* 171, then -21555, then the negative word
C21_Witness ==
    /\ RunEnded
    /\ Len(executed) = 4
    /\ FetchedWord(executed[1].before) = <<LDBD, 2, 0, 64>>
    /\ executed[1].after.registers[2] = 171
    /\ FetchedWord(executed[2].before) = <<LDHD, 2, 0, 64>>
    /\ executed[2].after.registers[2] = -21555
    /\ FetchedWord(executed[3].before) = <<LDWD, 2, 0, 64>>
    /\ executed[3].after.registers[2] < 0

-----------------------------------------------------------------------------
(* C22                                                                     *)

StoreOpcodes == {STRBI, STRBR, STRHI, STRHR, STRWI, STRWR}

\* the i-th executed instruction stores a register and the next one loads
\* the same width from the same address
StoreThenLoad(i) ==
    /\ i < Len(executed)
    /\ FetchedByte(executed[i].before) \in StoreOpcodes
    /\ ~executed[i].panic
    /\ LoadsMemory(i + 1)
    /\ WidthOf(FetchedByte(executed[i + 1].before)) = WidthOf(FetchedByte(executed[i].before))
    /\ AddressOf(i + 1) = AddressOf(i)

\* the register the i-th executed instruction stores, before it
Stored(i) == executed[i].before.registers[FetchedWord(executed[i].before)[2]]

\* the bytes at the address of the i-th executed instruction, after it
Written(i) ==
    SubSeq(executed[i].after.program, AddressOf(i) + 1,
           AddressOf(i) + WidthOf(FetchedByte(executed[i].before)))

C22_WitnessHalf ==
    /\ RunEnded
    /\ Len(executed) = 4
    /\ FetchedWord(executed[1].before) = <<LDWD, 1, 0, 64>>
    /\ StoreThenLoad(2)
    /\ FetchedByte(executed[2].before) = STRHI
    /\ registers[2] = -16145

-----------------------------------------------------------------------------
(* C23                                                                     *)

\* the i-th executed instruction is one of ADDR, SUBR, MULR, it did not
\* panic, and its operands are small enough for the result to fit 32 bits
ComputesRegisters(i) ==
    LET vm == executed[i].before
        word == FetchedWord(vm)
    IN  /\ FetchedByte(vm) \in {ADDR, SUBR, MULR}
        /\ ~executed[i].panic
        /\ \A k \in 2..4 : word[k] < 32 /\ vm.registers[word[k]] \in -46340..46340

\* the result of the opcode on x and y
ResultOf(opcode, x, y) ==
    CASE opcode = ADDR -> x + y
      [] opcode = SUBR -> x - y
      [] OTHER -> x * y

\* C23 (as claimed): ADDR, SUBR and MULR write to the register named by the
\* third operand the result computed from the registers named by the first
\* and the second.
C23_ResultInThirdOperand ==
    \A i \in 1..Len(executed) :
        ComputesRegisters(i) =>
            LET vm == executed[i].before
                word == FetchedWord(vm)
            IN  executed[i].after.registers[word[4]] =
                    ResultOf(word[1], vm.registers[word[2]], vm.registers[word[3]])

\* C23 (amended): ADDR, SUBR and MULR write to the register named by the
\* first operand the result computed from the registers named by the second
\* (left) and the third (right); no other register changes.
C23_ResultInFirstOperand ==
    \A i \in 1..Len(executed) :
        ComputesRegisters(i) =>
            LET vm == executed[i].before
                word == FetchedWord(vm)
            IN  /\ executed[i].after.registers[word[2]] =
                      ResultOf(word[1], vm.registers[word[3]], vm.registers[word[4]])
                /\ \A k \in 0..31 :
                      k # word[2] => executed[i].after.registers[k] = vm.registers[k]

\* run() on `subr $2 $0 $1` with $0 = 5 and $1 = 10: $2 = -5, $1 still 10
C23_Witness ==
    /\ RunEnded
    /\ Len(executed) = 2
    /\ FetchedWord(executed[1].before) = <<SUBR, 2, 0, 1>>
    /\ ComputesRegisters(1)
    /\ registers[2] = -5
    /\ registers[0] = 5
    /\ registers[1] = 10

-----------------------------------------------------------------------------
(* C24                                                                     *)

\* the i-th executed instruction is a DIVR or DIVI on registers of the file
Divides(i) ==
    LET word == FetchedWord(executed[i].before)
    IN  /\ FetchedByte(executed[i].before) \in {DIVR, DIVI}
        /\ word[2] < 32
        /\ word[1] = DIVR => word[3] < 32 /\ word[4] < 32

\* its dividend and its divisor
Dividend(i) ==
    LET vm == executed[i].before
        word == FetchedWord(vm)
    IN  IF word[1] = DIVR THEN vm.registers[word[3]] ELSE vm.registers[word[2]]
Divisor(i) ==
    LET vm == executed[i].before
        word == FetchedWord(vm)
    IN  IF word[1] = DIVR THEN vm.registers[word[4]] ELSE 256 * word[3] + word[4]

\* C24: DIVR and DIVI with a divisor d # 0 and a dividend n (other than
\* n = -2^31 with d = -1) do not panic; the destination register gets the
\* quotient q truncated towards zero and `remainder` the bits of the signed
\* remainder r, where n = q * d + r, |r| < |d| and r is 0 or has the sign
\* of n.
C24_TruncatedDivision ==
    \A i \in 1..Len(executed) :
        (/\ Divides(i)
         /\ Divisor(i) # 0
         /\ ~(Dividend(i) = MinI32 /\ Divisor(i) = -1)) =>
            LET q == Loaded(i)
                r == executed[i].after.remainder
                n == Dividend(i)
                d == Divisor(i)
            IN  /\ ~executed[i].panic
                /\ executed[i].continue
                /\ q * d + r = n
                /\ IF d > 0 THEN -d < r /\ r < d ELSE d < r /\ r < -d
                /\ r = 0 \/ ((r < 0) <=> (n < 0))

\* run() on `subi $0 8; divi $0 4`: -3 / 4 gives $0 = 0 and remainder -3
C24_Witness ==
    /\ RunEnded
    /\ Len(executed) = 3
    /\ FetchedWord(executed[1].before) = <<SUBI, 0, 0, 8>>
    /\ FetchedWord(executed[2].before) = <<DIVI, 0, 0, 4>>
    /\ Dividend(2) = -3
    /\ registers[0] = 0
    /\ remainder = -3

\* run() on `subr $2 $0 $1; divr $3 $1 $2`: 10 / -5 gives $3 = -2
C24_WitnessNegativeDivisor ==
    /\ RunEnded
    /\ Len(executed) = 3
    /\ FetchedWord(executed[2].before) = <<DIVR, 3, 1, 2>>
    /\ Divisor(2) = -5
    /\ registers[3] = -2
    /\ remainder = 0

-----------------------------------------------------------------------------
(* C25                                                                     *)

ImmediateComparisons == {EQI, NEQI, GTI, GTEI, LTI, LTEI}
RegisterComparisons == {EQR, NEQR, GTR, GTER, LTR, LTER}

\* the relation each comparison opcode is named after
Holds(opcode, left, right) ==
    CASE opcode \in {EQI, EQR} -> left = right
      [] opcode \in {NEQI, NEQR} -> left # right
      [] opcode \in {GTI, GTR} -> left > right
      [] opcode \in {GTEI, GTER} -> left >= right
      [] opcode \in {LTI, LTR} -> left < right
      [] opcode \in {LTEI, LTER} -> left <= right

\* numbers a source may write as the immediate of a comparison
WrittenImmediates == -2..6 \cup {65534, 65535}

\* the i-th executed instruction is a comparison on registers of the file
Compares(i) ==
    LET word == FetchedWord(executed[i].before)
    IN  /\ FetchedByte(executed[i].before)
              \in ImmediateComparisons \cup RegisterComparisons
        /\ word[2] < 32
        /\ word[1] \in RegisterComparisons => word[3] < 32

\* the i-th executed instruction is the encoding of a comparison against
\* the immediate `written` in the source
ComparesWritten(i, written) ==
    LET word == FetchedWord(executed[i].before)
    IN  /\ Compares(i)
        /\ word[1] \in ImmediateComparisons
        /\ operand_bytes([tag |-> "Value", num |-> written, name |-> "", bytes |-> <<>>],
                         <<>>) = Some(<<word[3], word[4]>>)

\* C25 (as claimed, the I forms): the flag is the relation between the
\* register and the signed immediate written in the source.
C25_ImmediateComparedSigned ==
    \A i \in 1..Len(executed) : \A written \in WrittenImmediates :
        ComparesWritten(i, written) =>
            LET vm == executed[i].before
                word == FetchedWord(vm)
            IN  executed[i].after.equality_flag
                  <=> Holds(word[1], vm.registers[word[2]], written)

\* C25 (amended): a comparison sets equality_flag to its relation on signed
\* 32-bit values, the first operand register on the left and on the right
\* the second register (R forms) or the 16-bit immediate as 0..65535
\* (I forms): an immediate written in the source is compared as its low 16
\* bits, a negative one as the number + 65536.
C25_ImmediateComparedUnsigned ==
    \A i \in 1..Len(executed) :
        Compares(i) =>
            LET vm == executed[i].before
                word == FetchedWord(vm)
            IN  /\ ~executed[i].panic
                /\ executed[i].after.equality_flag
                     <=> Holds(word[1], vm.registers[word[2]],
                               IF word[1] \in RegisterComparisons
                               THEN vm.registers[word[3]]
                               ELSE 256 * word[3] + word[4])
                /\ \A written \in WrittenImmediates :
                      ComparesWritten(i, written) =>
                          (executed[i].after.equality_flag
                             <=> Holds(word[1], vm.registers[word[2]], written % 65536))

\* run() on `subi $0 8; ltr $0 $1; gti $0 0xFFFF`: -3 < 10 set the flag and
\* -3 > 65535 cleared it
C25_Witness ==
    /\ RunEnded
    /\ Len(executed) = 4
    /\ FetchedWord(executed[1].before) = <<SUBI, 0, 0, 8>>
    /\ FetchedWord(executed[2].before) = <<LTR, 0, 1, 0>>
    /\ executed[2].after.equality_flag
    /\ FetchedWord(executed[3].before) = <<GTI, 0, 255, 255>>
    /\ ComparesWritten(3, -1)
    /\ ~equality_flag

-----------------------------------------------------------------------------
(* C26                                                                     *)

JumpsIfEqual == {JMPEI, JMPED, JMPER}
JumpsIfNotEqual == {JMPNEI, JMPNED, JMPNER}
Jumps == {JMPI, JMPD, JMPR} \cup JumpsIfEqual \cup JumpsIfNotEqual

\* the i-th executed instruction is a conditional jump
JumpsConditionally(i) ==
    FetchedByte(executed[i].before) \in JumpsIfEqual \cup JumpsIfNotEqual

\* the flag matches the condition of the i-th executed instruction
FlagMatches(i) ==
    executed[i].before.equality_flag
        <=> (FetchedByte(executed[i].before) \in JumpsIfEqual)

\* the target of the i-th executed instruction is defined: the immediate, a
\* word inside the image, or a register of the file that is not negative
HasTarget(i) ==
    LET vm == executed[i].before
        word == FetchedWord(vm)
    IN  CASE word[1] \in {JMPI, JMPEI, JMPNEI} -> TRUE
          [] word[1] \in {JMPD, JMPED, JMPNED} ->
               256 * word[2] + word[3] + 4 <= Len(vm.program)
          [] OTHER -> word[2] < 32 /\ vm.registers[word[2]] >= 0

\* the target: the 16-bit immediate (I), the big-endian u32 in the image at
\* the 16-bit address (D), the value of the register (R)
TargetOf(i) ==
    LET vm == executed[i].before
        word == FetchedWord(vm)
    IN  CASE word[1] \in {JMPI, JMPEI, JMPNEI} -> 256 * word[2] + word[3]
          [] word[1] \in {JMPD, JMPED, JMPNED} ->
               UnsignedBE(SubSeq(vm.program, 256 * word[2] + word[3] + 1,
                                 256 * word[2] + word[3] + 4))
          [] OTHER -> vm.registers[word[2]]

\* the i-th executed instruction changed nothing but pc
OnlyPcChanged(i) ==
    /\ executed[i].after.registers = executed[i].before.registers
    /\ executed[i].after.equality_flag = executed[i].before.equality_flag
    /\ executed[i].after.remainder = executed[i].before.remainder
    /\ executed[i].after.program = executed[i].before.program

\* C26: a conditional jump whose flag matches (true for JMPEI/JMPED/JMPER,
\* false for JMPNEI/JMPNED/JMPNER) sets pc to its target: the 16-bit
\* immediate, the big-endian u32 in the image at the 16-bit address, or the
\* register; one whose flag does not match is a no-op and pc is the address
\* of the jump + 4.
C26_ConditionalJump ==
    \A i \in 1..Len(executed) :
        JumpsConditionally(i) =>
            IF FlagMatches(i)
            THEN HasTarget(i) =>
                   /\ ~executed[i].panic
                   /\ executed[i].continue
                   /\ executed[i].after.pc = TargetOf(i)
                   /\ OnlyPcChanged(i)
            ELSE /\ ~executed[i].panic
                 /\ executed[i].continue
                 /\ executed[i].after.pc = executed[i].before.pc + 4
                 /\ OnlyPcChanged(i)

\* run() with the flag set on `jmpei 72; jmped 0xFFFF; jmpner $1`: the first
\* jump went to 72, over the second, and the third was not taken
C26_Witness ==
    /\ RunEnded
    /\ Len(executed) = 3
    /\ equality_flag
    /\ FetchedWord(executed[1].before) = <<JMPEI, 0, 72, 0>>
    /\ executed[1].after.pc = 72
    /\ FetchedWord(executed[2].before) = <<JMPNER, 1, 0, 0>>
    /\ executed[2].before.pc = 72
    /\ vm_pc = 76

\* a taken jump through the image and a taken jump through a register
C26_WitnessIndirect ==
    /\ Len(executed) >= 3
    /\ FetchedWord(executed[1].before) = <<LDHI, 1, 0, 72>>
    /\ FetchedWord(executed[2].before) = <<JMPER, 1, 0, 0>>
    /\ executed[2].after.pc = 72
    /\ FetchedWord(executed[3].before) = <<JMPED, 0, 16, 0>>
    /\ executed[3].after.pc = 64

-----------------------------------------------------------------------------
(* C27                                                                     *)

\* the i-th execute_instruction fetched an instruction and came back
Executes(i) == FetchedByte(executed[i].before) # -1 /\ ~executed[i].panic

\* the i-th executed instruction is a jump that is taken
TakenJump(i) ==
    \/ FetchedByte(executed[i].before) \in {JMPI, JMPD, JMPR}
    \/ JumpsConditionally(i) /\ FlagMatches(i)

\* C27: every executed instruction that is not a taken jump leaves pc at its
\* address + 4, and pc is lower after a step than before it only when the
\* instruction is a jump.
C27_ProgramOrder ==
    \A i \in 1..Len(executed) :
        Executes(i) =>
            /\ ~TakenJump(i) => executed[i].after.pc = executed[i].before.pc + 4
            /\ executed[i].after.pc < executed[i].before.pc
                  => FetchedByte(executed[i].before) \in Jumps

\* run() with the flag set on `ldhi $1 72; jmpned 16; jmped 16`: two steps
\* of 4, then the jump back from 72 to 64
C27_Witness ==
    /\ Len(executed) = 3
    /\ FetchedWord(executed[1].before) = <<LDHI, 1, 0, 72>>
    /\ executed[1].after.pc = 68
    /\ FetchedWord(executed[2].before) = <<JMPNED, 0, 16, 0>>
    /\ ~TakenJump(2)
    /\ executed[2].after.pc = 72
    /\ FetchedWord(executed[3].before) = <<JMPED, 0, 16, 0>>
    /\ executed[3].after.pc = 64
    /\ vm_mode = "running"

-----------------------------------------------------------------------------
(* C28                                                                     *)

\* the k-th operand of instruction i is a label reference that pass 2 encodes
References(i, k) ==
    /\ program[i].kind = "Opcode"
    /\ k <= Len(take(program[i].operands, 3))
    /\ program[i].operands[k].tag = "Label"

\* the u16 pass 2 wrote for the k-th operand of instruction i
EncodedReference(i, k) ==
    BE16(SubSeq(emitted[i].bytes, OperandIndex(program[i].operands, k),
                OperandIndex(program[i].operands, k) + 1))

\* C28 (as claimed): the stored offset of a label is an absolute offset into
\* the image, counted from 64, and pass 2 writes it unchanged for a
\* reference.
C28_StoredOffsetAbsolute ==
    result.tag = "Ok" =>
        /\ \A i \in 1..Len(program) :
              Declares(program[i]) =>
                  symbols[program[i].label[1]] = PIE_HEADER_LENGTH + layout[i].offset
        /\ \A i \in 1..Len(program) : \A k \in 1..3 :
              References(i, k) =>
                  EncodedReference(i, k) = symbols[program[i].operands[k].name]

\* C28 (amended): the stored offset of a label is relative to the end of the
\* header: pass 1's running offset starts at 0, so a label on the first item
\* is stored as 0, and pass 2 adds 64 to the stored offset when it writes a
\* reference.
C28_StoredOffsetRelative ==
    result.tag = "Ok" =>
        /\ layout # <<>> => layout[1].offset = 0
        /\ \A i \in 1..Len(program) :
              /\ i > 1 => layout[i].offset = layout[i - 1].offset + layout[i - 1].size
              /\ Declares(program[i]) =>
                    symbols[program[i].label[1]] = layout[i].offset
        /\ \A i \in 1..Len(program) : \A k \in 1..3 :
              References(i, k) =>
                  EncodedReference(i, k) =
                      (symbols[program[i].operands[k].name] + PIE_HEADER_LENGTH) % 65536

\* `.code`, `a: ldbi $5 500`, `jmpi @a` assembled: a is stored as 0 and
\* written as 64
C28_Witness ==
    /\ result.tag = "Ok"
    /\ Len(program) = 3
    /\ Declares(program[2])
    /\ program[2].label = Some("a")
    /\ symbols["a"] = 0
    /\ References(3, 1)
    /\ EncodedReference(3, 1) = 64

-----------------------------------------------------------------------------
(* C29                                                                     *)

\* the alignment that the source text leaves pending after instruction i:
\* the value of the last `.align` with no sized data directive after it
RECURSIVE PendingAfter(_)
PendingAfter(i) ==
    IF i = 0 THEN None
    ELSE IF IsDataDirective(program[i]) THEN None
    ELSE IF /\ program[i].kind = "Directive"
            /\ program[i].directive = "Align"
            /\ first_is(program[i].operands, "Value")
         THEN Some(AsUsize(program[i].operands[1].num))
    ELSE PendingAfter(i - 1)

\* C29: an `.align n` applies to exactly the next sized data directive: both
\* passes lay that directive out with alignment n, and a sized data
\* directive with no `.align` since the sized data directive before it is
\* laid out with the default alignment 4.
C29_AlignAppliesToNextSized ==
    result.tag = "Ok" =>
        \A i \in 1..Len(program) :
            IsDataDirective(program[i]) =>
                /\ layout[i].size = size(program[i], PendingAfter(i - 1))
                /\ Len(emitted[i].bytes) = size(program[i], PendingAfter(i - 1))

-----------------------------------------------------------------------------
(* C30                                                                     *)

\* the section that the last section directive up to instruction i selected
RECURSIVE SectionAfter(_)
SectionAfter(i) ==
    IF i = 0 THEN None
    ELSE IF program[i].kind = "Directive" /\ program[i].operands = <<>>
         THEN Some(AssemblerSection_from(program[i].directive))
    ELSE SectionAfter(i - 1)

\* C30: pass 2 appends the bytes of a data directive to the buffer that
\* current_section selects: to the data section when the last section
\* directive was `.data`, to the code section when it was `.code`.
C30_DataDirectiveGoesToCurrentSection ==
    result.tag = "Ok" =>
        \A i \in 1..Len(program) :
            IsDataDirective(program[i]) =>
                /\ SectionAfter(i - 1) = Some("Data") => emitted[i].section = "data"
                /\ SectionAfter(i - 1) = Some("Code") => emitted[i].section = "code"

-----------------------------------------------------------------------------
(* C31                                                                     *)

\* the instruction a pass is about to handle is a section directive or `.align`
AtSectionOrAlign ==
    /\ pc \in {"first_pass", "second_pass"}
    /\ idx <= Len(program)
    /\ program[idx].kind = "Directive"
    /\ (program[idx].operands = <<>> \/ program[idx].directive = "Align")

\* C31: pass 2 never inserts, removes or changes a symbol, so the symbol
\* table when assemble() returns is the one pass 1 built; and a section
\* directive or `.align` adds no bytes in either pass: the running offset and
\* both section buffers are as they were.
C31_PassTwoKeepsSymbols ==
    [][ /\ pc = "second_pass" => symbols' = symbols
        /\ AtSectionOrAlign =>
              /\ offset' = offset
              /\ data_section' = data_section
              /\ code_section' = code_section ]_vars

\* `.data`, `.align 8`, `a: .asciiz 'abc'` assembled: a is in the table
\* pass 1 built, pass 2 has emitted the 8 bytes of the directive
C31_Witness ==
    /\ pc = "done"
    /\ result.tag = "Ok"
    /\ Len(program) = 3
    /\ program[2].kind = "Directive" /\ program[2].directive = "Align"
    /\ Declares(program[3])
    /\ "a" \in DOMAIN symbols
    /\ symbols["a"] = layout[3].offset
    /\ emitted[2].bytes = <<>>
    /\ Len(data_section) = 8

-----------------------------------------------------------------------------
(* C32                                                                     *)

\* the i-th executed instruction is a store
Stores(i) == FetchedByte(executed[i].before) \in StoreOpcodes

\* the register operands of the i-th executed store are registers
StoreOperandsValid(i) ==
    LET word == FetchedWord(executed[i].before)
    IN  /\ word[2] <= 31
        /\ word[1] \in {STRBR, STRHR, STRWR} => word[3] <= 31

\* image index k (from 1) is one of the bytes A .. A+w-1 of the i-th store
InStoredRange(i, k) ==
    /\ StoreOperandsValid(i)
    /\ AddressOf(i) >= 0
    /\ AddressOf(i) < k
    /\ k - AddressOf(i) <= WidthOf(FetchedByte(executed[i].before))

\* C32: a store of width w at address A changes only the image bytes
\* A .. A+w-1, which become the big-endian bytes of the register when the
\* store completes; the length of the image, every other image byte, every
\* register, the equality flag and the remainder are unchanged, and pc has
\* advanced by 4.
C32_StoreFrame ==
    \A i \in 1..Len(executed) :
        Stores(i) =>
            LET before == executed[i].before
                after == executed[i].after
            IN  /\ Len(after.program) = Len(before.program)
                /\ \A k \in 1..Len(before.program) :
                      ~InStoredRange(i, k) => after.program[k] = before.program[k]
                /\ (~executed[i].panic) =>
                      /\ StoreOperandsValid(i)
                      /\ Written(i) = store_bytes(FetchedByte(before), Stored(i))
                /\ after.registers = before.registers
                /\ after.equality_flag = before.equality_flag
                /\ after.remainder = before.remainder
                /\ after.pc = before.pc + 4

\* `ldwd $1 64; strwi $1 68` has run: the four bytes at 68 are the word, the
\* image is otherwise as it was
C32_Witness ==
    \E i \in 1..Len(executed) :
        /\ Stores(i)
        /\ ~executed[i].panic
        /\ FetchedWord(executed[i].before) = <<STRWI, 1, 0, 68>>
        /\ SubSeq(executed[i].after.program, 69, 72) = <<171, 205, 192, 239>>
        /\ SubSeq(executed[i].before.program, 69, 72) = <<0, 0, 0, 0>>

\* `strbr $1 $3` with register 3 = 0 has run: the store went to the first
\* byte of the header
C32_WitnessHeader ==
    \E i \in 1..Len(executed) :
        /\ Stores(i)
        /\ ~executed[i].panic
        /\ FetchedWord(executed[i].before)[1] = STRBR
        /\ AddressOf(i) = 0
        /\ executed[i].after.program[1] # executed[i].before.program[1]

\* `strwi $1 74` has run on an image of 76 bytes: bytes 74 and 75 were
\* written before the index past the end of the image panicked
C32_WitnessPartial ==
    \E i \in 1..Len(executed) :
        /\ Stores(i)
        /\ executed[i].panic
        /\ AddressOf(i) = 74
        /\ Len(executed[i].before.program) = 76
        /\ SubSeq(executed[i].after.program, 75, 76) = <<0, 0>>
        /\ SubSeq(executed[i].before.program, 75, 76) = <<0, 74>>

-----------------------------------------------------------------------------
(* C33                                                                     *)

ComparisonOpcodes == ImmediateComparisons \cup RegisterComparisons

\* C33: only a comparison writes the equality flag: an execute_instruction
\* that fetches anything else (a load, store, move, arithmetic, division,
\* jump, print, halt or unknown byte), or that fetches nothing, leaves the
\* flag as it was; a conditional jump only reads it.
C33_OnlyComparisonsWriteFlag ==
    \A i \in 1..Len(executed) :
        FetchedByte(executed[i].before) \notin ComparisonOpcodes =>
            executed[i].after.equality_flag = executed[i].before.equality_flag

\* run() on `eqi $0 5; ldwd $2 64; jmpei 72`: the comparison set the flag,
\* the load kept it and the jump was taken on it
C33_Witness ==
    /\ Len(executed) >= 3
    /\ FetchedWord(executed[1].before) = <<EQI, 0, 0, 5>>
    /\ ~executed[1].before.equality_flag
    /\ executed[1].after.equality_flag
    /\ FetchedWord(executed[2].before) = <<LDWD, 2, 0, 64>>
    /\ executed[2].after.equality_flag
    /\ executed[2].after.registers[2] # executed[2].before.registers[2]
    /\ FetchedWord(executed[3].before) = <<JMPEI, 0, 72, 0>>
    /\ executed[3].after.pc = 72
    /\ executed[3].after.equality_flag

\* `eqi $0 5; prtsd 64` has run: the print went through and kept the flag
C33_WitnessPrint ==
    \E i \in 1..Len(executed) :
        /\ FetchedByte(executed[i].before) = PRTSD
        /\ ~executed[i].panic
        /\ executed[i].continue
        /\ executed[i].before.equality_flag
        /\ executed[i].after.equality_flag

-----------------------------------------------------------------------------
(* C34                                                                     *)

\* the execute_instruction calls of the run() that is going on or was last
InRun == {i \in 1..Len(executed) : executed[i].in_run}

\* a jump was taken in that run
JumpTakenInRun == \E i \in InRun : Executes(i) /\ TakenJump(i)

\* ceil((len(image) - code_start) / 4), 0 when code_start is past the image
StepsToEnd ==
    IF code_section_start >= Len(vm_program) THEN 0
    ELSE (Len(vm_program) - code_section_start + 3) \div 4

\* the steps left to the model are enough for a run with no jump
RunFits == steps + MaxWords + 1 <= MaxSteps

\* in a run with no jump taken, the i-th call of execute_instruction is at
\* pc = code_start + 4 * (i - 1), at most StepsToEnd calls say "continue", and
\* the call that stops the loop has pc >= len(image), a HLT or an
\* unrecognised opcode, or is a panic
RunStepsBounded ==
    ~JumpTakenInRun =>
        \A i \in InRun :
            /\ executed[i].before.pc = code_section_start + 4 * (i - 1)
            /\ executed[i].continue => i <= StepsToEnd
            /\ (~executed[i].continue /\ ~executed[i].panic) =>
                  \/ executed[i].before.pc >= Len(executed[i].before.program)
                  \/ FetchedByte(executed[i].before) = HLT
                  \/ Unimplemented(FetchedByte(executed[i].before))
                  \/ FetchedByte(executed[i].before) = IGL

-----------------------------------------------------------------------------
(* C35                                                                     *)

\* C35: the two passes agree on the layout: for every data directive of a
\* program that assembles, pass 2 appends as many bytes as pass 1 added to
\* its running offset, whatever `.align` the program ends with.
C35_PassesAgreeOnSizes ==
    result.tag = "Ok" =>
        \A i \in 1..Len(program) :
            IsDataDirective(program[i]) => Len(emitted[i].bytes) = layout[i].size

-----------------------------------------------------------------------------
(* C36                                                                     *)

\* the k-th operand of instruction i refers to a label declared after it
ForwardReference(i, k) ==
    /\ References(i, k)
    /\ \E j \in 1..Len(program) :
          /\ j > i
          /\ Declares(program[j])
          /\ program[j].label = Some(program[i].operands[k].name)

\* C36: forward references resolve: pass 2 does not fail with
\* IncorrectOperand on an instruction whose label operands are all declared,
\* before or after it, and a reference placed before the declaration of its
\* label is encoded as the same u16 as one placed after it.
C36_ForwardReferencesResolve ==
    /\ (Terminal /\ result = Err("IncorrectOperand")) =>
          \E k \in 1..Len(take(program[Len(emitted) + 1].operands, 3)) :
              BadOperand(program[Len(emitted) + 1].operands[k])
    /\ \A i \in 1..Len(emitted) : \A k \in 1..3 :
          ForwardReference(i, k) =>
              /\ EncodedReference(i, k) =
                    label_offset(symbols[program[i].operands[k].name])
              /\ \A j \in 1..Len(emitted) : \A m \in 1..3 :
                    (/\ References(j, m)
                     /\ program[j].operands[m].name = program[i].operands[k].name)
                        => EncodedReference(j, m) = EncodedReference(i, k)

\* `.code`, `jmpi @a`, `a: ldbi $5 500`, `jmpi @a` assembled: the reference
\* before the declaration and the one after it are both written as 68
C36_Witness ==
    /\ result.tag = "Ok"
    /\ Len(program) = 4
    /\ ForwardReference(2, 1)
    /\ Declares(program[3])
    /\ References(4, 1)
    /\ ~ForwardReference(4, 1)
    /\ program[4].operands[1].name = "a"
    /\ EncodedReference(2, 1) = 68
    /\ EncodedReference(4, 1) = 68

-----------------------------------------------------------------------------
(* C37                                                                     *)

\* C37: once set, current_section is Data or Code: only `.data` and `.code`
\* change it; a directive of another kind written with no operands leaves
\* it alone, so that assemble() fails with NoSegmentDeclarationFound only
\* at an instruction that no `.data` or `.code` precedes.
C37_SectionIsDataOrCode ==
    /\ current_section \in {None, Some("Data"), Some("Code")}
    /\ (Terminal /\ result = Err("NoSegmentDeclarationFound")) => BeforeAnySection(idx)

-----------------------------------------------------------------------------
(* C38                                                                     *)

\* fewer than 4 bytes of the image are left at pc
ShortFetch(vm) == vm.pc < Len(vm.program) /\ vm.pc > Len(vm.program) - 4

\* C38: with fewer than 4 bytes left in the image at pc, execute_instruction
\* returns stop without a panic and changes no pc, register, flag or image
\* byte.
C38_ShortFetchStops ==
    \A i \in 1..Len(executed) :
        ShortFetch(executed[i].before) =>
            /\ ~executed[i].panic
            /\ ~executed[i].continue
            /\ executed[i].after = executed[i].before

-----------------------------------------------------------------------------
(* C39                                                                     *)

\* the i-th executed instruction reads or writes the image at an address it
\* is given, and the register bytes of its word are registers
AccessesImage(i) ==
    LET word == FetchedWord(executed[i].before)
    IN  /\ FetchedByte(executed[i].before) \in
              {LDBD, LDBR, LDHD, LDHR, LDWD, LDWR} \cup StoreOpcodes
                  \cup {JMPD, JMPED, JMPNED, PRTSD, PRTSR}
        /\ word[1] \in {LDBD, LDHD, LDWD, STRBI, STRHI, STRWI} => word[2] <= 31
        /\ word[1] \in {LDBR, LDHR, LDWR, STRBR, STRHR, STRWR} =>
              word[2] <= 31 /\ word[3] <= 31
        /\ word[1] = PRTSR => word[2] <= 31

\* C39: every index into the image made by a load, a store, a
\* memory-indirect jump or a print-string is smaller than len(image): no
\* such instruction hits the bounds check of the image, which is a panic;
\* print-string ends at the end of the image when no NUL follows its start.
C39_AccessesInImage ==
    \A i \in 1..Len(executed) : AccessesImage(i) => ~executed[i].panic

-----------------------------------------------------------------------------
(* C40                                                                     *)

\* opcodes whose first operand byte is a register index
RegisterFirst ==
    {LDBI, LDBD, LDBR, LDHI, LDHD, LDHR, LDWD, LDWR, MOV,
     ADDI, ADDR, SUBI, SUBR, MULI, MULR, DIVI, DIVR, JMPR, JMPER, JMPNER, PRTSR}
        \cup StoreOpcodes \cup ComparisonOpcodes

\* C40: no execution indexes the register file outside 0 .. 31: a word
\* whose register byte is 32 .. 255 does not take execute_instruction past
\* the 32 registers, where the index is a panic.
C40_RegisterIndexInFile ==
    \A i \in 1..Len(executed) :
        (/\ FetchedByte(executed[i].before) \in RegisterFirst
         /\ FetchedWord(executed[i].before)[2] > 31) => ~executed[i].panic

====
